---- MODULE Spec2Model ----
(***************************************************************************)
(* State-machine model of the Recon MCP server's HTTP client               *)
(* (recon-mcp-server/recon_api.py: ReconAPIClient) and of its field        *)
(* mapping template provider (recon-mcp-server/config.py).                 *)
(*                                                                         *)
(* Spec        the client: one action per ReconAPIClient method, each      *)
(*             taking its arguments and the remote server's / operating    *)
(*             system's answer from small sets, plus the passing of time.  *)
(* SpecConfig  the template provider: the module-level mapping document    *)
(*             as a heap of Python objects, the two accessors, and the     *)
(*             mutations a caller can apply to a returned document.        *)
(* SpecTools   the MCP tools of recon-mcp-server/main.py, each relaying to *)
(*             the one client instance api_client.                         *)
(* SpecOrder   the client against a remote API that keeps the workflow's   *)
(*             stage and refuses a step out of order; the methods are      *)
(*             called in any order.                                        *)
(* SpecEndToEnd  one caller running the workflow through the tools from    *)
(*             login to download, polling the status in between.           *)
(* SpecRace    two calls of authenticate interleaved on the one client.    *)
(* SpecEmail   the tools of email-mcp-server/mcp_tools.py against the      *)
(*             email bridge.                                               *)
(*                                                                         *)
(* Python values: a JSON / Python scalar is a record [ty, s, n]; a dict    *)
(* returned to the caller is a record whose DOMAIN is the dict's key set;  *)
(* an f-string is the sequence of its literal and interpolated pieces.     *)
(***************************************************************************)
EXTENDS Integers, Sequences, FiniteSets, TLC

VARIABLES
    token,              \* ReconAPIClient.token
    token_expiration,   \* ReconAPIClient.token_expiration
    now,                \* datetime.now(), in seconds
    ticks,              \* how often the clock has advanced
    fs,                 \* local filesystem: directories and file contents
    lastAuth,           \* the last authenticate call: when, outcome, token
    prevAuth,           \* the authenticate call before it: outcome, token
    lastCall,           \* the last client call: arguments, environment, outcome
    heap,               \* config.py: the Python objects of the mapping documents
    held,               \* documents returned to callers (object ids)
    lastLookup,         \* the last config.py accessor call and its outcome
    edits,              \* how many mutations callers have applied
    lastTool,           \* main.py: the last tool invocation and its outcome
    server,             \* the remote API: the stage its workflow has reached
    pc,                 \* the caller running the workflow end to end: its step
    threads,            \* concurrent authenticate calls: position and locals
    lastEmail           \* email-mcp-server: the last email tool call

clientVars ==
    <<token, token_expiration, now, ticks, fs, lastAuth, prevAuth, lastCall>>
configVars == <<heap, held, lastLookup, edits>>
toolVars == <<lastTool>>
serverVars == <<server>>
driverVars == <<pc>>
raceVars == <<threads>>
emailVars == <<lastEmail>>
otherVars == <<serverVars, driverVars, raceVars, emailVars>>
auxVars == <<toolVars, otherVars>>
vars == <<clientVars, configVars, auxVars>>

----------------------------------------------------------------------------
(* Bounds of the model *)

MaxTicks == 2
MaxDocs == 2
MaxEdits == 2

(* Program constants *)

DefaultExpiresIn == 3600
SafetyMargin == 60

----------------------------------------------------------------------------
(* Python / JSON values *)

JStr(v) == [ty |-> "str", s |-> v, n |-> 0]
JInt(v) == [ty |-> "int", s |-> "", n |-> v]
JNull == [ty |-> "null", s |-> "", n |-> 0]
JAbsent == [ty |-> "absent", s |-> "", n |-> 0]

\* Python truthiness of a scalar: None, "" and 0 are falsy
Truthy(v) ==
    CASE v.ty = "str" -> v.s # ""
      [] v.ty = "int" -> v.n # 0
      [] OTHER -> FALSE

\* str(v) as it appears inside an f-string
PyStr(v) ==
    CASE v.ty = "str" -> v.s
      [] v.ty = "int" -> ToString(v.n)
      [] OTHER -> "None"

Keys == {"access_token", "token_type", "expires_in", "workspace_id",
         "config_id", "message", "status", "progress", "detail"}

EmptyObj == [k \in Keys |-> JAbsent]

\* dict.get(key): None when the key is missing
DictGet(obj, key) == IF obj[key].ty = "absent" THEN JNull ELSE obj[key]

\* dict.get(key, default): the default only when the key is missing
DictGetDefault(obj, key, default) ==
    IF obj[key].ty = "absent" THEN default ELSE obj[key]

----------------------------------------------------------------------------
(* HTTP responses.  A body is raw text that is a JSON object, another JSON *)
(* value (here: an array) or no JSON at all.                               *)

ObjBody(text, obj) == [kind |-> "object", text |-> text, obj |-> obj]
ArrayBody == [kind |-> "array", text |-> "[]", obj |-> EmptyObj]
TextBody(text) == [kind |-> "text", text |-> text, obj |-> EmptyObj]

\* the raw text, whatever the body
ErrorDetail_text_only(body) ==
    [parsed |-> FALSE, kind |-> "text", obj |-> EmptyObj, text |-> body.text]

\* try: response.json() except: response.text
ErrorDetail(body) ==
    IF body.kind = "text"
    THEN [parsed |-> FALSE, kind |-> "text", obj |-> EmptyObj, text |-> body.text]
    ELSE [parsed |-> TRUE, kind |-> body.kind, obj |-> body.obj, text |-> ""]

NoBody == TextBody("")
NoRequest ==
    [sent |-> FALSE, method |-> "", url |-> <<>>, auth |-> <<>>, json |-> <<>>]
NoResponse == [fault |-> FALSE, status |-> 0, body |-> NoBody, chunks |-> <<>>]

ErrorStatuses == {204, 401, 500}

UnauthorizedJson ==
    ObjBody("{\"detail\": \"Unauthorized\"}",
            [EmptyObj EXCEPT !["detail"] = JStr("Unauthorized")])

ErrorBodies == {UnauthorizedJson, TextBody("<html>error</html>")}

\* a requests.exceptions.RequestException raised by the call; body.text is str(e)
NetworkFault ==
    [fault |-> TRUE, status |-> 0, body |-> TextBody("Connection refused"),
     chunks |-> <<>>]

Response(status, body) ==
    [fault |-> FALSE, status |-> status, body |-> body, chunks |-> <<>>]

ErrorResponses == {Response(s, b) : s \in ErrorStatuses, b \in ErrorBodies}

----------------------------------------------------------------------------
(* The record of one client call *)

(* op: the method; args: its path arguments; preValid: _is_token_valid()   *)
(* when it was called; request: the HTTP request it issued, if any;        *)
(* requests: how many HTTP requests it issued;                             *)
(* response: the environment's answer; outcome: "return" with result, or   *)
(* "raise" with the exception's class; opened / openAfter: the local files *)
(* it opened and those still open when it ended; fault: the fault of the   *)
(* local disk or of the stream that struck it; preDir / preSize: whether   *)
(* the output directory existed and the size of the output file (-1: no    *)
(* file) before a download.                                                *)

NoResult == [none |-> TRUE]

\* a request that met a network fault is issued once more
requests_issued_retry(req, resp) ==
    IF ~req.sent THEN 0 ELSE IF resp.fault THEN 2 ELSE 1

\* how many HTTP requests a call issues: every method has one requests.post or
\* requests.get, in no loop, and handles the answer without issuing another
requests_issued(req, resp) == IF req.sent THEN 1 ELSE 0

Call(op, args, preValid, req, resp, outcome, exc, result) ==
    [op |-> op, args |-> args, preValid |-> preValid, request |-> req,
     requests |-> requests_issued(req, resp),
     response |-> resp, outcome |-> outcome, exc |-> exc, result |-> result,
     opened |-> {}, openAfter |-> {}, fault |-> "none", preDir |-> TRUE,
     preSize |-> -1]

Returned(op, args, preValid, req, resp, result) ==
    Call(op, args, preValid, req, resp, "return", "", result)

Raised(op, args, preValid, req, resp, exc) ==
    Call(op, args, preValid, req, resp, "raise", exc, NoResult)

NoArgs == [file1_path |-> <<>>, file2_path |-> <<>>, output_path |-> <<>>]

----------------------------------------------------------------------------
(* Session / token manager *)

NoExpiration == [none |-> TRUE, at |-> 0]
Expiration(t) == [none |-> FALSE, at |-> t]

\* a token that is never taken to have expired
_is_token_valid_ignores_expiry(tok, exp, t) == Truthy(tok) /\ ~exp.none

\* ReconAPIClient._is_token_valid, at instant t
_is_token_valid(tok, exp, t) ==
    IF ~Truthy(tok) \/ exp.none
    THEN FALSE
    ELSE IF t >= exp.at THEN FALSE ELSE TRUE

TokenValid == _is_token_valid(token, token_expiration, now)

\* the expiry without the safety margin
ExpiryInstant_no_margin(t, expires_in) == t + expires_in

\* datetime.now() + timedelta(seconds=expires_in - 60)
ExpiryInstant(t, expires_in) == t + (expires_in - SafetyMargin)

\* a token once stored is kept
new_token_keeps_first(tok, result) ==
    IF Truthy(tok) THEN tok ELSE DictGet(result, "access_token")

\* self.token = result.get("access_token")
new_token(tok, result) == DictGet(result, "access_token")

\* the Authorization header _get_auth_headers builds
BearerHeader(tok) == <<"Bearer ", PyStr(tok)>>

LoginRequest ==
    [sent |-> TRUE, method |-> "POST", url |-> <<"/auth/login">>, auth |-> <<>>,
     json |-> <<>>]

LoginBody(tok, exp) ==
    ObjBody("{login}",
            [EmptyObj EXCEPT !["access_token"] = tok,
                             !["token_type"] = JStr("bearer"),
                             !["expires_in"] = exp])

\* ReconAPIClient.authenticate: the client state and the call record it
\* leaves.  oldRequests: the installed requests raises a plain ValueError
\* from response.json() (requests < 2.27) instead of a RequestException.
\* a login that fails forgets the token the client held
token_dropped(tok) == JNull

\* the else branch and the except clause of authenticate assign nothing to
\* self.token
token_unassigned(tok) == tok

authenticate_step(tok, exp, t, resp, oldRequests) ==
    LET pre == _is_token_valid(tok, exp, t)
        keep(c) == [token |-> token_unassigned(tok), expiration |-> exp, call |-> c]
        ret(result) == Returned("authenticate", NoArgs, pre, LoginRequest, resp, result)
        exc(name) == Raised("authenticate", NoArgs, pre, LoginRequest, resp, name)
        network(msg) ==
            ret([success |-> FALSE,
                 error |-> <<"Network error during ", "authentication", ": ", msg>>])
    IN  IF resp.fault THEN keep(network(resp.body.text))
        ELSE IF resp.status = 200
        THEN CASE resp.body.kind = "text" ->
                    IF oldRequests THEN keep(exc("JSONDecodeError"))
                    ELSE keep(network("Expecting value"))
               [] resp.body.kind = "array" -> keep(exc("AttributeError"))
               [] OTHER ->
                    LET result == resp.body.obj
                        newTok == new_token(tok, result)
                        expires_in == DictGetDefault(result, "expires_in",
                                                     JInt(DefaultExpiresIn))
                    IN  IF expires_in.ty # "int"
                        THEN [token |-> newTok, expiration |-> exp,
                              call |-> exc("TypeError")]
                        ELSE [token |-> newTok,
                              expiration |-> Expiration(ExpiryInstant(t, expires_in.n)),
                              call |-> ret([success |-> TRUE,
                                            access_token |-> newTok,
                                            token_type |-> DictGetDefault(result, "token_type", JStr("Bearer")),
                                            expires_in |-> expires_in])]
        ELSE keep(ret([success |-> FALSE,
                       error |-> <<"Authentication", " failed with status ",
                                   ToString(resp.status)>>,
                       detail |-> ErrorDetail(resp.body)]))

----------------------------------------------------------------------------
(* Local filesystem.  A path is the sequence of its components; fs.files   *)
(* maps each existing file to its bytes, fs.dirs holds the directories     *)
(* other than the working directory.                                       *)

RECURSIVE PathStr(_)
PathStr(p) ==
    IF Len(p) = 0 THEN ""
    ELSE IF Len(p) = 1 THEN p[1]
    ELSE p[1] \o "/" \o PathStr(Tail(p))

\* os.path.dirname
dirname(p) == SubSeq(p, 1, Len(p) - 1)

\* os.path.exists
path_exists(f, p) == p \in DOMAIN f.files \/ p \in f.dirs

\* os.makedirs(d, exist_ok=True): d and every missing parent
makedirs(f, d) ==
    [f EXCEPT !.dirs = @ \cup {SubSeq(d, 1, i) : i \in 1..Len(d)}]

\* open(path, 'ab'): what the file held is kept
open_ab(f, p) ==
    IF p \in DOMAIN f.files THEN f ELSE [f EXCEPT !.files = (p :> <<>>) @@ @]

\* open(path, 'wb'): the file exists and is empty
open_wb(f, p) == [f EXCEPT !.files = (p :> <<>>) @@ @]

\* the handles are closed by a close() the exception jumps over
with_exit_skipped_by_exception(handles, by_exception) ==
    IF by_exception THEN handles ELSE {}

\* with open(...) as f: of the handles the statement entered, those still
\* open once the block is left, by its end or by an exception
with_exit(handles, by_exception) == {}

\* f.write(chunk)
write(f, p, chunk) == [f EXCEPT !.files[p] = @ \o chunk]

\* the size is taken of a file that holds nothing yet
getsize_unwritten(f, p) == 0

\* os.path.getsize
getsize(f, p) == Len(f.files[p])

RECURSIVE SumLen(_)
SumLen(chunks) ==
    IF chunks = <<>> THEN 0 ELSE Len(Head(chunks)) + SumLen(Tail(chunks))

\* for chunk in iter_content(): if chunk: f.write(chunk) -- the first n chunks
RECURSIVE write_chunks(_, _, _, _)
write_chunks(f, p, chunks, n) ==
    IF n = 0 THEN f
    ELSE LET g == write_chunks(f, p, chunks, n - 1)
         IN  IF chunks[n] # <<>> THEN write(g, p, chunks[n]) ELSE g

OutputPaths == {<<"out.xlsx">>, <<"results", "dec", "out.xlsx">>}

InitFs ==
    [dirs |-> {},
     files |-> (<<"a.xlsx">> :> <<7>>) @@ (<<"b.xlsx">> :> <<8>>)
               @@ (<<"out.xlsx">> :> <<9, 9, 9, 9>>)]

----------------------------------------------------------------------------
(* Transport client: the pieces the five authenticated methods share *)

\* _get_auth_headers without its check
auth_headers_never_raise(tok, exp, t) == FALSE

\* _get_auth_headers raises ValueError
auth_headers_raise(tok, exp, t) == ~_is_token_valid(tok, exp, t)

Unauthenticated ==
    [success |-> FALSE,
     error |-> <<"No valid authentication token. Please authenticate first.">>]

\* f"File not found: {path}"
FileNotFound(p) == [success |-> FALSE, error |-> <<"File not found: ", PathStr(p)>>]

\* f"{what} failed with status {response.status_code}"
StatusError(what, status) == <<what, " failed with status ", ToString(status)>>

\* the refusal's payload is dropped
RemoteRejection_no_detail(what, resp) ==
    [success |-> FALSE, error |-> StatusError(what, resp.status)]

\* the else branch of every method: a status outside its success set
RemoteRejection(what, resp) ==
    [success |-> FALSE, error |-> StatusError(what, resp.status),
     detail |-> ErrorDetail(resp.body)]

\* the fault's text is attached as a detail
NetworkError_with_detail(during, msg) ==
    [success |-> FALSE, error |-> <<"Network error during ", during, ": ", msg>>,
     detail |-> ErrorDetail(TextBody(msg))]

\* the fault's text is left out of the error
NetworkError_no_text(during, msg) ==
    [success |-> FALSE, error |-> <<"Network error during ", during>>]

\* except requests.exceptions.RequestException as e
NetworkError(during, msg) ==
    [success |-> FALSE, error |-> <<"Network error during ", during, ": ", msg>>]

\* except ValueError as e, for the JSONDecodeError of response.json()
JsonValueError == [success |-> FALSE, error |-> <<"Expecting value">>]

\* a disk fault reported through the clause of the network faults
FileIOError_as_network(msg) == NetworkError("download", msg)

\* except IOError as e
FileIOError(msg) == [success |-> FALSE, error |-> <<"File I/O error: ", msg>>]

AuthedRequest(method, url, tok, json) ==
    [sent |-> TRUE, method |-> method, url |-> url, auth |-> BearerHeader(tok),
     json |-> json]

UploadOk == {200, 201}
MappingOk == {200, 201}
ReconOk == {200, 201}
\* check_status takes 201 for a success as the uploading methods do
StatusOk_with_created == {200, 201}

StatusOk == {200}
DownloadOk == {200}

(* What a method does with the answer to its request: the call record.     *)
(* success is the dict it returns when the body is a JSON object.           *)
handle_response(op, args, pre, req, resp, ok, what, during, success) ==
    IF resp.fault THEN Returned(op, args, pre, req, resp,
                                NetworkError(during, resp.body.text))
    ELSE IF resp.status \in ok
    THEN CASE resp.body.kind = "text" ->
                Returned(op, args, pre, req, resp, JsonValueError)
           [] resp.body.kind = "array" ->
                Raised(op, args, pre, req, resp, "AttributeError")
           [] OTHER -> Returned(op, args, pre, req, resp, success)
    ELSE Returned(op, args, pre, req, resp, RemoteRejection(what, resp))

\* only the first path is checked
missing_file_first_only(f, file1_path, file2_path) ==
    IF ~path_exists(f, file1_path) THEN <<file1_path>> ELSE <<>>

\* the second path is checked before the first
missing_file_second_first(f, file1_path, file2_path) ==
    IF ~path_exists(f, file2_path) THEN <<file2_path>>
    ELSE IF ~path_exists(f, file1_path) THEN <<file1_path>>
    ELSE <<>>

\* the two os.path.exists checks of upload_files and run_reconciliation
missing_file(f, file1_path, file2_path) ==
    IF ~path_exists(f, file1_path) THEN <<file1_path>>
    ELSE IF ~path_exists(f, file2_path) THEN <<file2_path>>
    ELSE <<>>

(* with open(file1_path, 'rb') as f1, open(file2_path, 'rb') as f2: the    *)
(* request is issued inside the block.  opens: "ok", or the open that      *)
(* raises OSError ("fail1", "fail2").                                      *)
multipart_step(op, f, tok, exp, t, file1_path, file2_path, url, resp, opens, ok, what, during, success) ==
    LET args == [file1_path |-> file1_path, file2_path |-> file2_path,
                 output_path |-> <<>>]
        pre == _is_token_valid(tok, exp, t)
        missing == missing_file(f, file1_path, file2_path)
        req == AuthedRequest("POST", url, tok, <<>>)
    IN  IF missing # <<>>
        THEN Returned(op, args, pre, NoRequest, NoResponse, FileNotFound(missing[1]))
        ELSE IF auth_headers_raise(tok, exp, t)
        THEN Returned(op, args, pre, NoRequest, NoResponse, Unauthenticated)
        ELSE IF opens = "fail1"
        THEN [Raised(op, args, pre, NoRequest, NoResponse, "OSError")
                EXCEPT !.fault = "open"]
        ELSE IF opens = "fail2"
        THEN [Raised(op, args, pre, NoRequest, NoResponse, "OSError")
                EXCEPT !.opened = {file1_path}, !.fault = "open",
                       !.openAfter = with_exit({file1_path}, TRUE)]
        ELSE [handle_response(op, args, pre, req, resp, ok, what, during, success)
                EXCEPT !.opened = {file1_path, file2_path},
                       !.openAfter = with_exit({file1_path, file2_path}, resp.fault)]

upload_success(obj) ==
    [success |-> TRUE,
     workspace_id |-> DictGet(obj, "workspace_id"),
     config_id |-> DictGet(obj, "config_id"),
     message |-> DictGetDefault(obj, "message", JStr("Files uploaded successfully"))]

mapping_success(obj) ==
    [success |-> TRUE,
     message |-> DictGetDefault(obj, "message",
                                JStr("Field mappings configured successfully"))]

recon_success(obj) ==
    [success |-> TRUE,
     workspace_id |-> DictGet(obj, "workspace_id"),
     message |-> DictGetDefault(obj, "message",
                                JStr("Reconciliation started successfully"))]

status_success(obj) ==
    [success |-> TRUE,
     status |-> DictGetDefault(obj, "status", JStr("unknown")),
     progress |-> DictGetDefault(obj, "progress", JInt(0)),
     message |-> DictGetDefault(obj, "message", JStr(""))]

\* ReconAPIClient.upload_files
upload_files_step(f, tok, exp, t, file1_path, file2_path, resp, opens) ==
    multipart_step("upload_files", f, tok, exp, t, file1_path, file2_path,
                   <<"/workspaces/upload">>, resp, opens,
                   UploadOk, "Upload", "upload", upload_success(resp.body.obj))

\* ReconAPIClient.run_reconciliation
run_reconciliation_step(f, tok, exp, t, config_id, file1_path, file2_path, resp, opens) ==
    multipart_step("run_reconciliation", f, tok, exp, t, file1_path, file2_path,
                   <<"/auto-recon/", config_id>>, resp, opens,
                   ReconOk, "Reconciliation", "reconciliation",
                   recon_success(resp.body.obj))

\* ReconAPIClient.set_field_mapping
set_field_mapping_step(tok, exp, t, workspace_id, config_id, mappings, resp) ==
    IF auth_headers_raise(tok, exp, t)
    THEN Returned("set_field_mapping", NoArgs, _is_token_valid(tok, exp, t),
                  NoRequest, NoResponse, Unauthenticated)
    ELSE handle_response("set_field_mapping", NoArgs, _is_token_valid(tok, exp, t),
             AuthedRequest("POST", <<"/field-mapping/", workspace_id, "/", config_id>>,
                           tok, mappings),
             resp, MappingOk, "Field mapping", "field mapping",
             mapping_success(resp.body.obj))

\* ReconAPIClient.check_status
check_status_step(tok, exp, t, workspace_id, resp) ==
    IF auth_headers_raise(tok, exp, t)
    THEN Returned("check_status", NoArgs, _is_token_valid(tok, exp, t),
                  NoRequest, NoResponse, Unauthenticated)
    ELSE handle_response("check_status", NoArgs, _is_token_valid(tok, exp, t),
             AuthedRequest("GET", <<"/workspaces/", workspace_id, "/status">>,
                           tok, <<>>),
             resp, StatusOk, "Status check", "status check",
             status_success(resp.body.obj))

\* os.path.abspath, the working directory being /cwd
abspath(p) == "/cwd/" \o PathStr(p)

(* ReconAPIClient.download_results: the filesystem and the call record it  *)
(* leaves.  fail: the fault the operating system or the stream produces,   *)
(* "mkdir" (os.makedirs raises OSError), "open" (open raises OSError),     *)
(* "write" / "stream" (writing, resp. reading, chunk number failAt         *)
(* raises), or "none".                                                     *)
download_results_step(f, tok, exp, t, workspace_id, output_path, resp, fail, failAt) ==
    LET op == "download_results"
        args == [file1_path |-> <<>>, file2_path |-> <<>>, output_path |-> output_path]
        pre == _is_token_valid(tok, exp, t)
        output_dir == dirname(output_path)
        need_dir == output_dir # <<>> /\ ~path_exists(f, output_dir)
        req == AuthedRequest("GET", <<"/workspaces/", workspace_id, "/download">>,
                             tok, <<>>)
        rec(c) == [c EXCEPT !.preDir = ~need_dir,
                            !.preSize = IF output_path \in DOMAIN f.files
                                        THEN Len(f.files[output_path]) ELSE -1]
        f1 == IF need_dir THEN makedirs(f, output_dir) ELSE f
        f2 == open_wb(f1, output_path)
        cut == fail \in {"write", "stream"} /\ failAt \in 1..Len(resp.chunks)
                /\ (fail = "write" => resp.chunks[failAt] # <<>>)
        f3 == write_chunks(f2, output_path, resp.chunks,
                           IF cut THEN failAt - 1 ELSE Len(resp.chunks))
    IN  IF auth_headers_raise(tok, exp, t)
        THEN [fs |-> f,
              call |-> rec(Returned(op, args, pre, NoRequest, NoResponse,
                                    Unauthenticated))]
        ELSE IF need_dir /\ fail = "mkdir"
        THEN [fs |-> f,
              call |-> [rec(Returned(op, args, pre, NoRequest, NoResponse,
                                     FileIOError("Permission denied")))
                        EXCEPT !.fault = "mkdir"]]
        ELSE IF resp.fault
        THEN [fs |-> f1,
              call |-> rec(Returned(op, args, pre, req, resp,
                                    NetworkError("download", resp.body.text)))]
        ELSE IF resp.status \in DownloadOk
        THEN IF fail = "open"
             THEN [fs |-> f1,
                   call |-> [rec(Returned(op, args, pre, req, resp,
                                          FileIOError("Permission denied")))
                             EXCEPT !.fault = "open"]]
             ELSE IF cut
             THEN [fs |-> f3,
                   call |-> [rec(Returned(op, args, pre, req, resp,
                                   IF fail = "stream"
                                   THEN NetworkError("download", "Connection broken")
                                   ELSE FileIOError("No space left on device")))
                             EXCEPT !.opened = {output_path}, !.fault = fail,
                                    !.openAfter = with_exit({output_path}, TRUE)]]
             ELSE [fs |-> f3,
                   call |-> [rec(Returned(op, args, pre, req, resp,
                                   [success |-> TRUE,
                                    file_path |-> abspath(output_path),
                                    file_size |-> getsize(f3, output_path)]))
                             EXCEPT !.opened = {output_path},
                                    !.openAfter = with_exit({output_path}, FALSE)]]
        ELSE [fs |-> f1,
              call |-> rec(Returned(op, args, pre, req, resp,
                                    RemoteRejection("Download", resp)))]

----------------------------------------------------------------------------
(* config.py: the built-in mapping document *)

Entry(c1, c2, pk) == [file1_column |-> c1, file2_column |-> c2, is_primary_key |-> pk]

\* SAMSUNG_FIELD_MAPPINGS["mappings"]
SamsungEntries ==
    << Entry("txn_ref_number", "Transaction Reference", TRUE),
       Entry("TRANSACTIONAMOUNT", "Paid Amount", FALSE),
       Entry("product_amount", "MRP", FALSE),
       Entry("PRODUCT_CATEGORY", "PRODUCT_CATEGORY", FALSE),
       Entry("Tenure", "Tenure", FALSE),
       Entry("RATE_OF_INTEREST____P_A_", "RATE_OF_INTEREST____P_A_", FALSE),
       Entry("EMI_AMOUNT", "EMI_AMOUNT", FALSE),
       Entry("LOAN_AMOUNT", "LOAN_AMOUNT", FALSE),
       Entry("Brand share", "Correct brand share", FALSE),
       Entry("Bank share", "Correct bank share", FALSE) >>

CustomEntries == << Entry("id", "reference", TRUE), Entry("amount", "total", FALSE) >>

(* The Python objects behind the documents.  heap.docs maps a document (a  *)
(* dict with the one key "mappings") to its list, heap.lists a list to the *)
(* entries it holds, heap.entries an entry to its three fields.  Document  *)
(* 0 is SAMSUNG_FIELD_MAPPINGS, list 0 its "mappings" list.                *)

BuiltinHeap ==
    [docs |-> (0 :> 0),
     lists |-> (0 :> [i \in 1..Len(SamsungEntries) |-> i]),
     entries |-> [i \in 1..Len(SamsungEntries) |-> SamsungEntries[i]]]

\* the content of document d: its entries, in order
Deref(h, d) ==
    LET l == h.lists[h.docs[d]] IN [i \in 1..Len(l) |-> h.entries[l[i]]]

NewId(f) == Cardinality(DOMAIN f)

\* dict.copy(): a new dict whose "mappings" is the same list object
dict_copy(h, d) ==
    [heap |-> [h EXCEPT !.docs = (NewId(h.docs) :> h.docs[d]) @@ @],
     doc |-> NewId(h.docs)]

(* Names are sequences of characters, so that str.lower() is computed. *)

UpperCase == <<"A", "B", "C", "D", "E", "F", "G", "H", "I", "J", "K", "L", "M",
               "N", "O", "P", "Q", "R", "S", "T", "U", "V", "W", "X", "Y", "Z">>
LowerCase == <<"a", "b", "c", "d", "e", "f", "g", "h", "i", "j", "k", "l", "m",
               "n", "o", "p", "q", "r", "s", "t", "u", "v", "w", "x", "y", "z">>

LowerChar(c) ==
    IF \E i \in 1..Len(UpperCase) : UpperCase[i] = c
    THEN LowerCase[CHOOSE i \in 1..Len(UpperCase) : UpperCase[i] = c]
    ELSE c

\* str.lower()
lower(name) == [i \in 1..Len(name) |-> LowerChar(name[i])]

RECURSIVE Str(_)
Str(chars) == IF chars = <<>> THEN "" ELSE Head(chars) \o Str(Tail(chars))

\* sep.join(names)
RECURSIVE join(_, _)
join(sep, names) ==
    IF names = <<>> THEN ""
    ELSE IF Len(names) = 1 THEN names[1]
    ELSE names[1] \o sep \o join(sep, Tail(names))

\* templates = {"samsung": SAMSUNG_FIELD_MAPPINGS}: the keys, and each key's document
TemplateKeys == <<"samsung">>
templates == ("samsung" :> 0)

Chars_samsung == <<"s", "a", "m", "s", "u", "n", "g">>

\* template_name.lower(), the key get_field_mapping_template looks up
template_key(template_name) == Str(lower(template_name))

NoLookup ==
    [fn |-> "none", name |-> <<>>, outcome |-> "return", error |-> <<>>,
     doc |-> 0, entries |-> <<>>, pk |-> {}]

UnknownTemplate(template_name) ==
    <<"Unknown template: ", Str(template_name), ". ",
      "Available templates: ", join(", ", TemplateKeys)>>

\* config.get_field_mapping_template: the heap and the outcome it leaves
get_field_mapping_template_step(h, template_name) ==
    IF template_key(template_name) \notin DOMAIN templates
    THEN [heap |-> h,
          lookup |-> [NoLookup EXCEPT !.fn = "get_field_mapping_template",
                                      !.name = template_name,
                                      !.outcome = "raise",
                                      !.error = UnknownTemplate(template_name)]]
    ELSE LET c == dict_copy(h, templates[template_key(template_name)])
         IN  [heap |-> c.heap,
              lookup |-> [NoLookup EXCEPT !.fn = "get_field_mapping_template",
                                          !.name = template_name,
                                          !.doc = c.doc,
                                          !.entries = Deref(c.heap, c.doc)]]

\* the loop of get_primary_key_mapping over template["mappings"]
RECURSIVE first_primary_key(_)
first_primary_key(entries) ==
    IF entries = <<>> THEN {}
    ELSE IF Head(entries).is_primary_key
    THEN {<<"file1_column", Head(entries).file1_column>>,
          <<"file2_column", Head(entries).file2_column>>}
    ELSE first_primary_key(Tail(entries))

\* config.get_primary_key_mapping: its outcome, with the entries it read (the
\* copy it makes is dropped)
get_primary_key_mapping_step(h, template_name) ==
    LET t == get_field_mapping_template_step(h, template_name)
    IN  IF t.lookup.outcome = "raise"
        THEN [t.lookup EXCEPT !.fn = "get_primary_key_mapping"]
        ELSE [NoLookup EXCEPT !.fn = "get_primary_key_mapping",
                              !.name = template_name,
                              !.entries = t.lookup.entries,
                              !.pk = first_primary_key(t.lookup.entries)]

----------------------------------------------------------------------------
(* The client's actions.  Each takes the sets its arguments and the        *)
(* environment's answers are drawn from.                                   *)

WorkspaceIds == {"ws-1"}
ConfigIds == {"cfg-1"}

\* the passing of time, by one of Steps seconds
Tick(Steps) ==
    /\ ticks < MaxTicks
    /\ \E d \in Steps : now' = now + d
    /\ ticks' = ticks + 1
    /\ UNCHANGED <<token, token_expiration, fs, lastAuth, prevAuth, lastCall, configVars>>

NoAuth == [called |-> FALSE, ok |-> FALSE, token |-> JNull, expires_in |-> 0, at |-> 0]

\* what lastAuth keeps of an authenticate call made at instant t: whether it
\* reported success, the token the server sent, the lifetime it reported
AuthRecord(call, t) ==
    IF call.outcome = "return" /\ call.result.success
    THEN [called |-> TRUE, ok |-> TRUE,
          token |-> LET sent == call.response.body.obj["access_token"]
                    IN  IF sent.ty = "absent" THEN JNull ELSE sent,
          expires_in |-> call.result.expires_in.n, at |-> t]
    ELSE [called |-> TRUE, ok |-> FALSE, token |-> JNull, expires_in |-> 0, at |-> t]

authenticate(Responses) ==
    \E resp \in Responses, oldRequests \in BOOLEAN :
        LET r == authenticate_step(token, token_expiration, now, resp, oldRequests)
        IN  /\ token' = r.token
            /\ token_expiration' = r.expiration
            /\ lastCall' = r.call
            /\ lastAuth' = AuthRecord(r.call, now)
            /\ prevAuth' = [ok |-> lastAuth.ok, token |-> lastAuth.token]
            /\ UNCHANGED <<now, ticks, fs, configVars>>

\* Envs: [resp, opens]; PathPairs: <<file1_path, file2_path>>
upload_files(PathPairs, Envs) ==
    \E paths \in PathPairs, env \in Envs :
        /\ lastCall' = upload_files_step(fs, token, token_expiration, now,
                                         paths[1], paths[2], env.resp, env.opens)
        /\ UNCHANGED <<token, token_expiration, now, ticks, fs, lastAuth, prevAuth,
                       configVars>>

set_field_mapping(Docs, Responses) ==
    \E workspace_id \in WorkspaceIds, config_id \in ConfigIds,
       mappings \in Docs, resp \in Responses :
        /\ lastCall' = set_field_mapping_step(token, token_expiration, now,
                                              workspace_id, config_id, mappings, resp)
        /\ UNCHANGED <<token, token_expiration, now, ticks, fs, lastAuth, prevAuth,
                       configVars>>

run_reconciliation(PathPairs, Envs) ==
    \E config_id \in ConfigIds, paths \in PathPairs, env \in Envs :
        /\ lastCall' = run_reconciliation_step(fs, token, token_expiration, now,
                                               config_id, paths[1], paths[2],
                                               env.resp, env.opens)
        /\ UNCHANGED <<token, token_expiration, now, ticks, fs, lastAuth, prevAuth,
                       configVars>>

check_status(Responses) ==
    \E workspace_id \in WorkspaceIds, resp \in Responses :
        /\ lastCall' = check_status_step(token, token_expiration, now,
                                         workspace_id, resp)
        /\ UNCHANGED <<token, token_expiration, now, ticks, fs, lastAuth, prevAuth,
                       configVars>>

\* Envs: [resp, fail, failAt]
download_results(Paths, Envs) ==
    \E workspace_id \in WorkspaceIds, output_path \in Paths, env \in Envs :
        LET r == download_results_step(fs, token, token_expiration, now,
                                       workspace_id, output_path,
                                       env.resp, env.fail, env.failAt)
        IN  /\ fs' = r.fs
            /\ lastCall' = r.call
            /\ UNCHANGED <<token, token_expiration, now, ticks, lastAuth, prevAuth,
                           configVars>>

NoCall == Call("none", NoArgs, FALSE, NoRequest, NoResponse, "return", "", NoResult)

----------------------------------------------------------------------------
(* main.py: the MCP tools.  Each relays to one method of api_client, the   *)
(* one ReconAPIClient of the process.  lastTool keeps the tool, the        *)
(* arguments that decide what it sends, the number of client methods it    *)
(* called and of HTTP requests these issued, and what it returned or       *)
(* raised.                                                                 *)

\* custom_mappings: None, or a mapping document
NoCustom == [given |-> FALSE, entries |-> <<>>]
Custom(entries) == [given |-> TRUE, entries |-> entries]

NoTool ==
    [tool |-> "none", use_samsung_template |-> TRUE, custom_mappings |-> NoCustom,
     calls |-> 0, requests |-> 0, outcome |-> "return", exc |-> "",
     result |-> NoResult]

\* return api_client.<method>(...)
Relay(tool, call) ==
    [NoTool EXCEPT !.tool = tool, !.calls = 1, !.requests = call.requests,
                   !.outcome = call.outcome, !.exc = call.exc,
                   !.result = call.result]

MissingCustomMappings ==
    [success |-> FALSE,
     error |-> <<"custom_mappings must be provided when use_samsung_template is False">>]

\* custom_mappings wins whenever it is given
tool_mappings_prefers_custom(use_samsung_template, custom_mappings, template) ==
    IF custom_mappings.given THEN custom_mappings.entries ELSE template

\* the mappings the set_field_mapping tool hands to the client
tool_mappings(use_samsung_template, custom_mappings, template) ==
    IF use_samsung_template THEN template ELSE custom_mappings.entries

tool_authenticate(Responses) ==
    /\ authenticate(Responses)
    /\ lastTool' = Relay("authenticate", lastCall')

tool_upload_files(PathPairs, Envs) ==
    /\ upload_files(PathPairs, Envs)
    /\ lastTool' = Relay("upload_files", lastCall')

\* the template is copied for the call and dropped after it
tool_set_field_mapping(Customs, Responses) ==
    \E use_samsung_template \in BOOLEAN, custom_mappings \in Customs :
        IF ~use_samsung_template /\ ~custom_mappings.given
        THEN /\ lastTool' = [NoTool EXCEPT
                               !.tool = "set_field_mapping",
                               !.use_samsung_template = use_samsung_template,
                               !.custom_mappings = custom_mappings,
                               !.result = MissingCustomMappings]
             /\ UNCHANGED <<clientVars, configVars>>
        ELSE LET template ==
                   get_field_mapping_template_step(heap, Chars_samsung).lookup.entries
                 mappings ==
                   tool_mappings(use_samsung_template, custom_mappings, template)
             IN  /\ set_field_mapping({mappings}, Responses)
                 /\ lastTool' = [Relay("set_field_mapping", lastCall') EXCEPT
                                   !.use_samsung_template = use_samsung_template,
                                   !.custom_mappings = custom_mappings]

tool_run_reconciliation(PathPairs, Envs) ==
    /\ run_reconciliation(PathPairs, Envs)
    /\ lastTool' = Relay("run_reconciliation", lastCall')

tool_check_reconciliation_status(Responses) ==
    /\ check_status(Responses)
    /\ lastTool' = Relay("check_reconciliation_status", lastCall')

tool_download_results(Paths, Envs) ==
    /\ download_results(Paths, Envs)
    /\ lastTool' = Relay("download_results", lastCall')

----------------------------------------------------------------------------
(* The remote reconciliation API as the workflow describes it: files are   *)
(* uploaded, the mapping is set, the run is started, it completes, the     *)
(* results are fetched.  A step that comes out of order is refused with    *)
(* the API's own error payload.                                            *)

\* stage: how far the workflow got; saw: the stage in which the answered
\* request of the last call arrived ("none": the call sent none)
NoServer == [stage |-> "empty", saw |-> "none"]

Threads == {1, 2}
\* a call of authenticate that has not started; wroteAt / expAt: the rank of
\* its write of token / token_expiration among all such writes (0: none yet)
Idle == [pc |-> "idle", resp |-> NoResponse, wroteAt |-> 0, expAt |-> 0]

\* a freshly constructed ReconAPIClient (__init__) and a freshly imported config
Init ==
    /\ token = JNull
    /\ token_expiration = NoExpiration
    /\ now = 0
    /\ ticks = 0
    /\ fs = InitFs
    /\ lastAuth = NoAuth
    /\ prevAuth = [ok |-> FALSE, token |-> JNull]
    /\ lastCall = NoCall
    /\ heap = BuiltinHeap
    /\ held = {}
    /\ lastLookup = NoLookup
    /\ edits = 0
    /\ lastTool = NoTool
    /\ server = NoServer
    /\ pc = "authenticate"
    /\ threads = [th \in Threads |-> Idle]
    /\ lastEmail = NoCall

----------------------------------------------------------------------------
(* Arguments and answers *)

JsonOk(obj) == Response(200, ObjBody("{...}", obj))
Created == Response(201, ObjBody("{}", EmptyObj))
NotJson == Response(200, TextBody("<html>ok</html>"))
NotObject == Response(200, ArrayBody)
Unauthorized == Response(401, UnauthorizedJson)

OpensOk(Responses) == {[resp |-> r, opens |-> "ok"] : r \in Responses}
OpenFails == {[resp |-> NetworkFault, opens |-> o] : o \in {"fail1", "fail2"}}
NoFault(Responses) == {[resp |-> r, fail |-> "none", failAt |-> 0] : r \in Responses}

UploadOkBody ==
    JsonOk([EmptyObj EXCEPT !["workspace_id"] = JStr("ws-1"),
                            !["config_id"] = JStr("cfg-1")])
MappingOkBody == JsonOk([EmptyObj EXCEPT !["message"] = JStr("saved")])
StatusBody(st, pr) ==
    JsonOk([EmptyObj EXCEPT !["status"] = JStr(st), !["progress"] = JInt(pr)])
Stream(chunks) == [Response(200, TextBody("PK..")) EXCEPT !.chunks = chunks]

(* The remote API's answers *)

ServerAccepts(stage, op) ==
    CASE op = "upload_files" -> TRUE
      [] op = "set_field_mapping" -> stage \in {"uploaded", "mapped"}
      [] op = "run_reconciliation" -> stage = "mapped"
      [] op = "check_status" -> stage \in {"running", "completed", "failed"}
      [] op = "download_results" -> stage = "completed"
      [] OTHER -> FALSE

ServerAfter(stage, op) ==
    CASE op = "upload_files" -> "uploaded"
      [] op = "set_field_mapping" -> "mapped"
      [] op = "run_reconciliation" -> "running"
      [] OTHER -> stage

\* the payload of a refusal
OutOfOrderPayload(stage, op) ==
    [EmptyObj EXCEPT !["status"] = JStr(stage), !["message"] = JStr(op)]

OutOfOrder(stage, op) == Response(409, ObjBody("{...}", OutOfOrderPayload(stage, op)))

ResultBytes == << <<1, 2>>, <<3>> >>

ServerAnswer(stage, op) ==
    IF ~ServerAccepts(stage, op) THEN OutOfOrder(stage, op)
    ELSE CASE op = "upload_files" -> UploadOkBody
           [] op = "set_field_mapping" -> MappingOkBody
           [] op = "run_reconciliation" -> UploadOkBody
           [] op = "check_status" ->
                StatusBody(stage, IF stage = "running" THEN 50 ELSE 100)
           [] OTHER -> Stream(ResultBytes)

\* the API after a call of the client: a request that reached it moves the
\* workflow on when the step was in order
ServerSees(srv, call) ==
    IF call.request.sent /\ ~call.response.fault
    THEN [stage |-> IF ServerAccepts(srv.stage, call.op)
                    THEN ServerAfter(srv.stage, call.op) ELSE srv.stage,
          saw |-> srv.stage]
    ELSE [srv EXCEPT !.saw = "none"]

\* the run the API was asked to start comes to its end
ServerCompletes ==
    /\ server.stage = "running"
    /\ server' = [server EXCEPT !.stage = "completed"]

(* Spec: the token's life.  Logins with every token and lifetime of        *)
(* interest; every other method against a server that accepts or answers   *)
(* 401.                                                                    *)

TokenValues == {JStr("T1"), JStr("T2"), JAbsent}
ExpiresInValues == {JInt(60), JInt(61), JAbsent, JNull}

LoginResponses ==
    {Response(200, LoginBody(t, e)) : t \in TokenValues, e \in ExpiresInValues}
    \cup {Unauthorized, NetworkFault}

BothExist == {<< <<"a.xlsx">>, <<"b.xlsx">> >>}

(* The sets the actions draw from are definitions of their own: they are   *)
(* values fixed before any step is taken.                                  *)
OneSecond == {1}
ClockSteps == {1, DefaultExpiresIn - SafetyMargin - 1}
TokenUploads == OpensOk({UploadOkBody, Unauthorized})
TokenDocs == {SamsungEntries}
TokenMappings == {MappingOkBody, Unauthorized}
TokenStatuses == {StatusBody("running", 50), Unauthorized}
TokenOutputs == {<<"out.xlsx">>}
TokenDownloads == NoFault({Stream(<< <<1, 2>> >>), Unauthorized})

Next ==
    \/ Tick(ClockSteps) /\ UNCHANGED auxVars
    \/ authenticate(LoginResponses) /\ UNCHANGED auxVars
    \/ upload_files(BothExist, TokenUploads) /\ UNCHANGED auxVars
    \/ set_field_mapping(TokenDocs, TokenMappings) /\ UNCHANGED auxVars
    \/ run_reconciliation(BothExist, TokenUploads) /\ UNCHANGED auxVars
    \/ check_status(TokenStatuses) /\ UNCHANGED auxVars
    \/ download_results(TokenOutputs, TokenDownloads) /\ UNCHANGED auxVars

Spec == Init /\ [][Next]_vars

(* SpecTransport: what each method makes of the answer to its request.     *)
(* Every status and body of interest, faults of the network and of         *)
(* open(), missing files; one token.                                       *)

PathPairs ==
    { << <<"a.xlsx">>, <<"b.xlsx">> >>, << <<"gone.xlsx">>, <<"b.xlsx">> >>,
      << <<"a.xlsx">>, <<"gone.xlsx">> >>, << <<"gone.xlsx">>, <<"lost.xlsx">> >> }

TransportLogins ==
    { Response(200, LoginBody(JStr("T1"), JInt(61))),
      Response(200, LoginBody(JStr("T1"), JNull)),
      Created, NotJson, NotObject, NetworkFault }
    \cup ErrorResponses

UploadResponses ==
    {UploadOkBody, Created, NotJson, NotObject, NetworkFault} \cup ErrorResponses

MappingResponses ==
    {MappingOkBody, Created, NotJson, NotObject, NetworkFault} \cup ErrorResponses

StatusResponses ==
    {StatusBody("completed", 100), JsonOk(EmptyObj), Created, NotJson, NotObject,
     NetworkFault} \cup ErrorResponses

TransportDownloads ==
    {Stream(<< <<1, 2>> >>), Created, NetworkFault} \cup ErrorResponses

\* the connection breaks while the second chunk of the body is read
StreamBreaks ==
    {[resp |-> Stream(<< <<1, 2>>, <<3>> >>), fail |-> "stream", failAt |-> 2]}

TransportUploads == OpensOk(UploadResponses) \cup OpenFails
TransportDocs == {SamsungEntries, CustomEntries}
TransportDownloadEnvs == NoFault(TransportDownloads) \cup StreamBreaks

NextTransport ==
    \/ Tick(OneSecond) /\ UNCHANGED auxVars
    \/ authenticate(TransportLogins) /\ UNCHANGED auxVars
    \/ upload_files(PathPairs, TransportUploads) /\ UNCHANGED auxVars
    \/ set_field_mapping(TransportDocs, MappingResponses) /\ UNCHANGED auxVars
    \/ run_reconciliation(PathPairs, TransportUploads) /\ UNCHANGED auxVars
    \/ check_status(StatusResponses) /\ UNCHANGED auxVars
    \/ download_results(OutputPaths, TransportDownloadEnvs) /\ UNCHANGED auxVars

SpecTransport == Init /\ [][NextTransport]_vars

(* SpecFiles: the downloaded artifact.  One login; streams of several      *)
(* chunks into fresh and existing paths, with the faults of the disk and   *)
(* of the stream.                                                          *)

ChunkLists == { <<>>, << <<1, 2>>, <<>>, <<3>> >>, << <<4>> >> }

FileLogins == { Response(200, LoginBody(JStr("T1"), JAbsent)) }

DownloadEnvs ==
    NoFault({Stream(c) : c \in ChunkLists} \cup {Unauthorized, NetworkFault})
    \cup {[resp |-> Stream(c), fail |-> f, failAt |-> 0]
            : c \in ChunkLists, f \in {"mkdir", "open"}}
    \cup {[resp |-> Stream(c), fail |-> f, failAt |-> i]
            : c \in ChunkLists \ {<<>>}, f \in {"write", "stream"}, i \in {1, 3}}
    \cup {[resp |-> NetworkFault, fail |-> "mkdir", failAt |-> 0]}

NextFiles ==
    \/ Tick(OneSecond) /\ UNCHANGED auxVars
    \/ authenticate(FileLogins) /\ UNCHANGED auxVars
    \/ download_results(OutputPaths, DownloadEnvs) /\ UNCHANGED auxVars

SpecFiles == Init /\ [][NextFiles]_vars

(* SpecConfig: the template provider and its callers.  Lookups by name in  *)
(* every spelling of interest; a caller holding a returned document        *)
(* replaces its list, appends to it, or edits one of its entries.          *)

TemplateNames ==
    { Chars_samsung,
      <<"S", "a", "m", "s", "u", "n", "g">>,
      <<"S", "A", "M", "S", "U", "N", "G">>,
      <<"s", "A", "m", "S", "u", "N", "g">>,
      <<"s", "a", "m", "s", "u", "n">>,
      <<"a", "p", "p", "l", "e">>,
      << >> }

get_field_mapping_template ==
    \E template_name \in TemplateNames :
        LET r == get_field_mapping_template_step(heap, template_name)
        IN  /\ r.lookup.outcome = "return" => Cardinality(held) < MaxDocs
            /\ heap' = r.heap
            /\ held' = IF r.lookup.outcome = "return"
                       THEN held \cup {r.lookup.doc} ELSE held
            /\ lastLookup' = r.lookup
            /\ UNCHANGED <<edits, clientVars>>

get_primary_key_mapping ==
    \E template_name \in TemplateNames :
        /\ lastLookup' = get_primary_key_mapping_step(heap, template_name)
        /\ UNCHANGED <<heap, held, edits, clientVars>>

\* a caller: doc["mappings"] = []
ReplaceMappings ==
    \E d \in held :
        /\ edits < MaxEdits
        /\ heap' = [heap EXCEPT !.lists = (NewId(heap.lists) :> << >>) @@ @,
                                !.docs[d] = NewId(heap.lists)]
        /\ edits' = edits + 1
        /\ UNCHANGED <<held, lastLookup, clientVars>>

\* a caller: doc["mappings"].append({...})
AppendEntry ==
    \E d \in held :
        /\ edits < MaxEdits
        /\ LET e == NewId(heap.entries) + 1
           IN  heap' = [heap EXCEPT
                          !.entries = (e :> Entry("extra", "Extra", FALSE)) @@ @,
                          !.lists[heap.docs[d]] = Append(@, e)]
        /\ edits' = edits + 1
        /\ UNCHANGED <<held, lastLookup, clientVars>>

\* a caller: doc["mappings"][i]["is_primary_key"] = not doc["mappings"][i]["is_primary_key"]
EditEntry ==
    \E d \in held :
        \E i \in 1..2 :
            /\ edits < MaxEdits
            /\ i <= Len(heap.lists[heap.docs[d]])
            /\ heap' = [heap EXCEPT
                          !.entries[heap.lists[heap.docs[d]][i]].is_primary_key = ~@]
            /\ edits' = edits + 1
            /\ UNCHANGED <<held, lastLookup, clientVars>>

NextConfig ==
    \/ get_field_mapping_template /\ UNCHANGED auxVars
    \/ get_primary_key_mapping /\ UNCHANGED auxVars
    \/ ReplaceMappings /\ UNCHANGED auxVars
    \/ AppendEntry /\ UNCHANGED auxVars
    \/ EditEntry /\ UNCHANGED auxVars

SpecConfig == Init /\ [][NextConfig]_vars

(* SpecTools: the tools, against a server that accepts, refuses or is not  *)
(* reached; set_field_mapping with and without the template and with and   *)
(* without custom mappings.                                                *)

ToolLogins == {Response(200, LoginBody(JStr("T1"), JInt(61))), Unauthorized, NetworkFault}

ToolCustoms == {NoCustom, Custom(CustomEntries), Custom(<<>>)}

ToolUploads == OpensOk({UploadOkBody, Unauthorized, NetworkFault})
ToolMappings == {MappingOkBody, Unauthorized, NetworkFault}
ToolStatuses == {StatusBody("running", 50), Unauthorized, NetworkFault}
ToolDownloads == NoFault({Stream(<< <<1, 2>> >>), Unauthorized, NetworkFault})

NextTools ==
    \/ Tick(OneSecond) /\ UNCHANGED auxVars
    \/ tool_authenticate(ToolLogins) /\ UNCHANGED otherVars
    \/ tool_upload_files(BothExist, ToolUploads) /\ UNCHANGED otherVars
    \/ tool_set_field_mapping(ToolCustoms, ToolMappings) /\ UNCHANGED otherVars
    \/ tool_run_reconciliation(BothExist, ToolUploads) /\ UNCHANGED otherVars
    \/ tool_check_reconciliation_status(ToolStatuses) /\ UNCHANGED otherVars
    \/ tool_download_results(TokenOutputs, ToolDownloads) /\ UNCHANGED otherVars

SpecTools == Init /\ [][NextTools]_vars

(* SpecOrder: the five authenticated methods called in any order against   *)
(* the API that keeps the workflow's stage; files that are missing or      *)
(* cannot be opened, an output directory that cannot be created.           *)

OrderLogins == {Response(200, LoginBody(JStr("T1"), JInt(61)))}
OrderOutputs == {<<"out.xlsx">>, <<"results", "out.xlsx">>}
MkdirFails == {[resp |-> NetworkFault, fail |-> "mkdir", failAt |-> 0]}

\* what the API answers in its present stage
Served(op) == {ServerAnswer(server.stage, op)}

NextOrder ==
    \/ Tick(OneSecond) /\ UNCHANGED auxVars
    \/ authenticate(OrderLogins) /\ UNCHANGED auxVars
    \/ /\ upload_files(PathPairs, OpensOk(Served("upload_files")) \cup OpenFails)
       /\ server' = ServerSees(server, lastCall')
       /\ UNCHANGED <<toolVars, driverVars, raceVars, emailVars>>
    \/ /\ set_field_mapping(TokenDocs, Served("set_field_mapping"))
       /\ server' = ServerSees(server, lastCall')
       /\ UNCHANGED <<toolVars, driverVars, raceVars, emailVars>>
    \/ /\ run_reconciliation(PathPairs, OpensOk(Served("run_reconciliation")) \cup OpenFails)
       /\ server' = ServerSees(server, lastCall')
       /\ UNCHANGED <<toolVars, driverVars, raceVars, emailVars>>
    \/ /\ check_status(Served("check_status"))
       /\ server' = ServerSees(server, lastCall')
       /\ UNCHANGED <<toolVars, driverVars, raceVars, emailVars>>
    \/ /\ download_results(OrderOutputs, NoFault(Served("download_results")) \cup MkdirFails)
       /\ server' = ServerSees(server, lastCall')
       /\ UNCHANGED <<toolVars, driverVars, raceVars, emailVars>>
    \/ ServerCompletes /\ UNCHANGED <<clientVars, configVars, toolVars, driverVars, raceVars, emailVars>>

SpecOrder == Init /\ [][NextOrder]_vars

(* SpecEndToEnd: one caller runs the workflow through the tools, step by   *)
(* step, against the API that keeps the workflow's stage: it logs in,      *)
(* uploads, sets the mapping from the samsung template, starts the run,    *)
(* asks for the status until it is terminal, and on "completed" downloads  *)
(* to a path that does not exist yet.  The run ends, or fails, when the    *)
(* API decides.                                                            *)

EndToEndLogins ==
    {Response(200, LoginBody(JStr("T1"), JAbsent)),
     Response(200, LoginBody(JStr("T2"), JInt(DefaultExpiresIn)))}
FreshOutputs == {<<"fresh.xlsx">>, <<"results", "dec", "fresh.xlsx">>}
TerminalStatuses == {"completed", "failed"}

\* the run the API was asked to start fails
ServerFails ==
    /\ server.stage = "running"
    /\ server' = [server EXCEPT !.stage = "failed"]

\* the status the caller read from the result of its last call
StatusRead(result) ==
    IF "status" \in DOMAIN result THEN result.status ELSE JStr("unknown")

AfterPoll(result) ==
    CASE StatusRead(result) = JStr("completed") -> "download_results"
      [] StatusRead(result) = JStr("failed") -> "failed"
      [] OTHER -> "check_status"

DriveAuthenticate ==
    /\ pc = "authenticate"
    /\ tool_authenticate(EndToEndLogins)
    /\ pc' = "upload_files"
    /\ UNCHANGED <<serverVars, raceVars, emailVars>>

DriveUpload ==
    /\ pc = "upload_files"
    /\ tool_upload_files(BothExist, OpensOk(Served("upload_files")))
    /\ server' = ServerSees(server, lastCall')
    /\ pc' = "set_field_mapping"
    /\ UNCHANGED <<raceVars, emailVars>>

DriveMapping ==
    /\ pc = "set_field_mapping"
    /\ tool_set_field_mapping(ToolCustoms, Served("set_field_mapping"))
    /\ lastTool'.use_samsung_template
    /\ server' = ServerSees(server, lastCall')
    /\ pc' = "run_reconciliation"
    /\ UNCHANGED <<raceVars, emailVars>>

DriveRun ==
    /\ pc = "run_reconciliation"
    /\ tool_run_reconciliation(BothExist, OpensOk(Served("run_reconciliation")))
    /\ server' = ServerSees(server, lastCall')
    /\ pc' = "check_status"
    /\ UNCHANGED <<raceVars, emailVars>>

DrivePoll ==
    /\ pc = "check_status"
    /\ tool_check_reconciliation_status(Served("check_status"))
    /\ server' = ServerSees(server, lastCall')
    /\ pc' = AfterPoll(lastTool'.result)
    /\ UNCHANGED <<raceVars, emailVars>>

DriveDownload ==
    /\ pc = "download_results"
    /\ tool_download_results(FreshOutputs, NoFault(Served("download_results")))
    /\ server' = ServerSees(server, lastCall')
    /\ pc' = "done"
    /\ UNCHANGED <<raceVars, emailVars>>

Drive ==
    \/ DriveAuthenticate
    \/ DriveUpload
    \/ DriveMapping
    \/ DriveRun
    \/ DrivePoll
    \/ DriveDownload

ServerEnds ==
    \/ ServerCompletes /\ UNCHANGED <<clientVars, configVars, toolVars, driverVars, raceVars, emailVars>>
    \/ ServerFails /\ UNCHANGED <<clientVars, configVars, toolVars, driverVars, raceVars, emailVars>>

NextEndToEnd ==
    \/ Tick(OneSecond) /\ UNCHANGED auxVars
    \/ DriveAuthenticate
    \/ DriveUpload
    \/ DriveMapping
    \/ DriveRun
    \/ DrivePoll
    \/ DriveDownload
    \/ ServerCompletes /\ UNCHANGED <<clientVars, configVars, toolVars, driverVars, raceVars, emailVars>>
    \/ ServerFails /\ UNCHANGED <<clientVars, configVars, toolVars, driverVars, raceVars, emailVars>>

\* the caller goes on with its next step, and the API ends the run it started
SpecEndToEnd ==
    Init /\ [][NextEndToEnd]_vars /\ WF_vars(Drive) /\ WF_vars(ServerEnds)

(* SpecRace: two calls of authenticate on the one client, each on a thread *)
(* of its own.  A call is three steps, and the other call may take any of  *)
(* its steps in between: the request and its answer, the assignment of     *)
(* self.token, the assignment of self.token_expiration.  The API issues a  *)
(* token of its own to each call, or refuses it.                           *)

TokenOf(th) == IF th = 1 THEN JStr("T1") ELSE JStr("T2")
RaceLifetimes == {JInt(61), JAbsent}

RaceLogins(th) ==
    {Response(200, LoginBody(TokenOf(th), e)) : e \in RaceLifetimes}
    \cup {Unauthorized}

Rank(field) ==
    LET S == {threads[th][field] : th \in Threads}
    IN  1 + CHOOSE n \in S : \A k \in S : k <= n

\* response = requests.post(url, json=payload, ...)
AuthPost(th) ==
    /\ threads[th].pc = "idle"
    /\ \E resp \in RaceLogins(th) :
          threads' = [threads EXCEPT ![th].resp = resp,
                                     ![th].pc = IF resp.status = 200
                                                THEN "posted" ELSE "returned"]
    /\ UNCHANGED <<clientVars, configVars, toolVars, serverVars, driverVars, emailVars>>

\* self.token = result.get("access_token")
AuthStoreToken(th) ==
    /\ threads[th].pc = "posted"
    /\ token' = new_token(token, threads[th].resp.body.obj)
    /\ threads' = [threads EXCEPT ![th].pc = "token_stored",
                                  ![th].wroteAt = Rank("wroteAt")]
    /\ UNCHANGED <<token_expiration, now, ticks, fs, lastAuth, prevAuth, lastCall,
                   configVars, toolVars, serverVars, driverVars, emailVars>>

\* self.token_expiration = datetime.now() + timedelta(seconds=expires_in - 60)
AuthStoreExpiry(th) ==
    /\ threads[th].pc = "token_stored"
    /\ LET expires_in == DictGetDefault(threads[th].resp.body.obj, "expires_in",
                                        JInt(DefaultExpiresIn))
       IN  token_expiration' = Expiration(ExpiryInstant(now, expires_in.n))
    /\ threads' = [threads EXCEPT ![th].pc = "returned",
                                  ![th].expAt = Rank("expAt")]
    /\ UNCHANGED <<token, now, ticks, fs, lastAuth, prevAuth, lastCall,
                   configVars, toolVars, serverVars, driverVars, emailVars>>

NextRace ==
    \/ Tick(OneSecond) /\ UNCHANGED auxVars
    \/ \E th \in Threads : AuthPost(th)
    \/ \E th \in Threads : AuthStoreToken(th)
    \/ \E th \in Threads : AuthStoreExpiry(th)

SpecRace == Init /\ [][NextRace]_vars

----------------------------------------------------------------------------
(* email-mcp-server/mcp_tools.py: the seven tools.  Each is one request to *)
(* the email bridge, raise_for_status, response.json(), and one except     *)
(* clause for requests.RequestException.                                   *)

EmailTools ==
    {"search_emails", "get_email", "send_email", "reply_to_email", "forward_email",
     "list_folders", "download_attachment"}

\* Python values of the defaults: [], None, False
PyEmptyList == [ty |-> "list", s |-> "", n |-> 0]
PyFalse == [ty |-> "bool", s |-> "", n |-> 0]

\* the key and the value each tool's except clause returns next to "error"
EmailDefaultKey(tool) ==
    CASE tool = "search_emails" -> "emails"
      [] tool = "get_email" -> "email"
      [] tool \in {"send_email", "reply_to_email", "forward_email"} -> "success"
      [] tool = "list_folders" -> "folders"
      [] OTHER -> "attachment"

EmailDefaultValue(tool) ==
    CASE tool \in {"search_emails", "list_folders"} -> PyEmptyList
      [] tool \in {"send_email", "reply_to_email", "forward_email"} -> PyFalse
      [] OTHER -> JNull

EmailMethod(tool) ==
    IF tool \in {"send_email", "reply_to_email", "forward_email"} THEN "POST" ELSE "GET"

\* f"{EMAIL_BRIDGE_API_URL}/emails/{email_id}" and its like
EmailUrl(tool, id) ==
    CASE tool \in {"search_emails", "send_email"} -> <<"/emails">>
      [] tool = "get_email" -> <<"/emails/", id>>
      [] tool = "reply_to_email" -> <<"/emails/", id, "/reply">>
      [] tool = "forward_email" -> <<"/emails/", id, "/forward">>
      [] tool = "list_folders" -> <<"/folders">>
      [] OTHER -> <<"/attachments/", id>>

EmailRequest(tool, id) ==
    [sent |-> TRUE, method |-> EmailMethod(tool), url |-> EmailUrl(tool, id),
     auth |-> <<>>, json |-> <<>>]

\* only the statuses of the server's own errors raise
raise_for_status_server_only(status) == 500 <= status /\ status < 600

\* response.raise_for_status(): HTTPError for 4xx and 5xx
raise_for_status(status) == 400 <= status /\ status < 600

\* str(e) of the HTTPError
HttpErrorText(status) ==
    ToString(status) \o (IF status < 500 THEN " Client Error" ELSE " Server Error")

\* return {"error": str(e), <key>: <default>}
EmailError(tool, msg) ==
    ("error" :> JStr(msg)) @@ (EmailDefaultKey(tool) :> EmailDefaultValue(tool))

\* return response.json(): the parsed body, whatever JSON value it is
EmailJson(body) == ("json" :> [kind |-> body.kind, obj |-> body.obj])

(* One call of an email tool.  oldRequests: the requests library raises    *)
(* json's own JSONDecodeError (a ValueError) where later versions raise    *)
(* requests.exceptions.JSONDecodeError, which is a RequestException.       *)
email_tool_step(tool, id, resp, oldRequests) ==
    LET req == EmailRequest(tool, id)
        args == [email_id |-> id]
        ret(result) == Returned(tool, args, FALSE, req, resp, result)
    IN  IF resp.fault THEN ret(EmailError(tool, resp.body.text))
        ELSE IF raise_for_status(resp.status)
        THEN ret(EmailError(tool, HttpErrorText(resp.status)))
        ELSE IF resp.body.kind = "text"
        THEN IF oldRequests
             THEN Raised(tool, args, FALSE, req, resp, "JSONDecodeError")
             ELSE ret(EmailError(tool, "Expecting value"))
        ELSE ret(EmailJson(resp.body))

EmailIds == {"m1", "m2"}
NoId == {""}

EmailIdsOf(tool) ==
    IF tool \in {"search_emails", "send_email", "list_folders"} THEN NoId ELSE EmailIds

email_tool(Responses) ==
    \E tool \in EmailTools, resp \in Responses, oldRequests \in BOOLEAN :
        \E id \in EmailIdsOf(tool) :
            /\ lastEmail' = email_tool_step(tool, id, resp, oldRequests)
            /\ UNCHANGED <<clientVars, configVars, toolVars, serverVars, driverVars,
                           raceVars>>

(* SpecEmail: every tool against a bridge that answers with a JSON object, *)
(* a JSON array, a body that is no JSON, a status of error, or not at all. *)

BridgeStatuses == {400, 404, 500, 503}
BridgeAnswers ==
    {JsonOk(EmptyObj), NotObject, NotJson, Created, NetworkFault,
     Response(204, TextBody(""))}
    \cup {Response(st, b) : st \in BridgeStatuses, b \in ErrorBodies}

NextEmail == email_tool(BridgeAnswers)

SpecEmail == Init /\ [][NextEmail]_vars

----------------------------------------------------------------------------
(* Properties *)

AuthedOps ==
    {"upload_files", "set_field_mapping", "run_reconciliation", "check_status",
     "download_results"}

ReturnedFailure(call) ==
    /\ call.outcome = "return"
    /\ call.result.success = FALSE
    /\ "error" \in DOMAIN call.result

(* C1: is_token_valid is false on a client that never authenticated, true  *)
(* at the instant of a successful authenticate that reported expires_in >  *)
(* 60, and false once more than expires_in - 60 seconds have passed since  *)
(* that authenticate, no authenticate having been called after it.  It     *)
(* fails: a 200 answer without access_token is reported as a success and   *)
(* leaves no valid token.                                                  *)
C1_TokenValidityOverTime ==
    /\ ~lastAuth.called => ~TokenValid
    /\ lastAuth.ok /\ lastAuth.expires_in > 60 /\ now = lastAuth.at => TokenValid
    /\ lastAuth.ok /\ now - lastAuth.at > lastAuth.expires_in - 60 => ~TokenValid

(* C2: after a successful authenticate at instant t reporting lifetime e   *)
(* (3600 when the answer has no expires_in), the stored expiry is t + e -  *)
(* 60, the returned token is stored, and the token is valid exactly when   *)
(* it is present and now < expiry; so for e <= 60 it is valid at no        *)
(* instant from t on.                                                      *)
C2_ExpiryAndStrictValidity ==
    /\ lastCall.op = "authenticate" /\ lastCall.outcome = "return"
         /\ lastCall.result.success
       => LET sent == lastCall.response.body.obj["expires_in"]
          IN  lastCall.result.expires_in
                = IF sent.ty = "absent" THEN JInt(3600) ELSE sent
    /\ lastAuth.ok
       => /\ token_expiration = [none |-> FALSE,
                                 at |-> lastAuth.at + lastAuth.expires_in - 60]
          /\ token = lastAuth.token
          /\ TokenValid <=> (/\ token \notin {JNull, JStr("")}
                             /\ now < lastAuth.at + lastAuth.expires_in - 60)
          /\ lastAuth.expires_in <= 60 => ~TokenValid

\* a token stored by a successful authenticate with e = 60: invalid at once
C2_Witness ==
    /\ lastAuth.ok /\ lastAuth.expires_in = 60 /\ now = lastAuth.at
    /\ token = JStr("T1")
    /\ token_expiration.at = now
    /\ ~TokenValid

(* C3: upload_files, set_field_mapping, run_reconciliation, check_status   *)
(* and download_results, called while no valid token is held, return a     *)
(* failure with an error and issue no request.                             *)
C3_NoTokenNoRequest ==
    lastCall.op \in AuthedOps /\ ~lastCall.preValid
    => /\ ReturnedFailure(lastCall)
       /\ ~lastCall.request.sent

\* download_results called with a token that has expired
C3_Witness ==
    /\ lastCall.op = "download_results" /\ ~lastCall.preValid
    /\ lastAuth.ok /\ Truthy(token) /\ now >= token_expiration.at
    /\ ReturnedFailure(lastCall)
    /\ ~lastCall.request.sent

(* C4: after two successful authenticate calls in a row returning T1 and   *)
(* then T2, the stored token is T2, and every request a later method       *)
(* issues carries "Bearer T2", none "Bearer T1".                           *)
C4_SecondTokenUsed ==
    prevAuth.ok /\ lastAuth.ok
    => /\ token = lastAuth.token
       /\ lastCall.op \in AuthedOps /\ lastCall.request.sent
          => /\ lastCall.request.auth = <<"Bearer ", lastAuth.token.s>>
             /\ prevAuth.token # lastAuth.token
                => lastCall.request.auth # <<"Bearer ", prevAuth.token.s>>

\* T1, then T2, then a status check that carries T2
C4_Witness ==
    /\ prevAuth = [ok |-> TRUE, token |-> JStr("T1")]
    /\ lastAuth.ok /\ lastAuth.token = JStr("T2")
    /\ lastCall.op = "check_status" /\ lastCall.request.sent
    /\ lastCall.request.auth = <<"Bearer ", "T2">>

(* C5: every client method returns a result dict and never raises,         *)
(* whatever the network, the server and the local disk do.  It fails:      *)
(* authenticate raises TypeError on a null expires_in and AttributeError   *)
(* on a JSON body that is no object; upload_files and run_reconciliation   *)
(* raise OSError when open() fails.                                        *)
C5_NeverRaises == lastCall.outcome = "return"

(* C6: upload_files and run_reconciliation with a missing first or second  *)
(* path return a failure whose error names the missing path (the first one *)
(* when both are missing), open no file and issue no request, with or      *)
(* without a valid token.                                                  *)
C6_MissingFileFailsFast ==
    LET a == lastCall.args
        gone(p) == p \notin DOMAIN fs.files
    IN  lastCall.op \in {"upload_files", "run_reconciliation"}
          /\ (gone(a.file1_path) \/ gone(a.file2_path))
        => /\ lastCall.outcome = "return"
           /\ lastCall.result
                = [success |-> FALSE,
                   error |-> <<"File not found: ",
                               IF gone(a.file1_path) THEN PathStr(a.file1_path)
                               ELSE PathStr(a.file2_path)>>]
           /\ lastCall.opened = {}
           /\ ~lastCall.request.sent

\* run_reconciliation with a valid token and a missing second path
C6_Witness ==
    /\ lastCall.op = "run_reconciliation" /\ lastCall.preValid
    /\ lastCall.args.file1_path = <<"a.xlsx">>
    /\ lastCall.args.file2_path = <<"gone.xlsx">>
    /\ lastCall.result.error = <<"File not found: ", "gone.xlsx">>
    /\ ~lastCall.request.sent

(* C7: when the server answers 401 to upload_files, set_field_mapping,     *)
(* run_reconciliation, check_status or download_results, the result is a   *)
(* failure whose error contains "401" and whose detail is the body parsed  *)
(* as JSON when it parses and the raw text otherwise.                      *)
C7_Status401 ==
    lastCall.op \in AuthedOps /\ lastCall.request.sent
      /\ ~lastCall.response.fault /\ lastCall.response.status = 401
    => /\ ReturnedFailure(lastCall)
       /\ \E i \in DOMAIN lastCall.result.error : lastCall.result.error[i] = "401"
       /\ "detail" \in DOMAIN lastCall.result
       /\ LET body == lastCall.response.body
              detail == lastCall.result.detail
          IN  IF body.kind = "text"
              THEN ~detail.parsed /\ detail.text = body.text
              ELSE detail.parsed /\ detail.kind = body.kind /\ detail.obj = body.obj

\* download_results answered 401 with a JSON body
C7_Witness ==
    /\ lastCall.op = "download_results" /\ lastCall.response.status = 401
    /\ lastCall.response.body.kind = "object"
    /\ lastCall.result.detail.parsed
    /\ lastCall.result.detail.obj["detail"] = JStr("Unauthorized")
    /\ lastCall.result.error = <<"Download", " failed with status ", "401">>

RECURSIVE Flatten(_)
Flatten(chunks) ==
    IF chunks = <<>> THEN <<>> ELSE Head(chunks) \o Flatten(Tail(chunks))

(* C8: download_results with a valid token and a 200 answer, no fault of   *)
(* the disk or of the stream striking, creates the directories of          *)
(* output_path that are missing, leaves at output_path exactly the bytes   *)
(* streamed, and returns success with file_size their number, also over a  *)
(* longer existing file and with empty chunks in the stream.               *)
C8_DownloadWritesStream ==
    lastCall.op = "download_results" /\ lastCall.preValid
      /\ lastCall.request.sent /\ ~lastCall.response.fault
      /\ lastCall.response.status = 200 /\ lastCall.fault = "none"
    => LET out == lastCall.args.output_path
           chunks == lastCall.response.chunks
       IN  /\ lastCall.outcome = "return"
           /\ lastCall.result.success
           /\ "error" \notin DOMAIN lastCall.result
           /\ lastCall.result.file_size = SumLen(chunks)
           /\ out \in DOMAIN fs.files
           /\ fs.files[out] = Flatten(chunks)
           /\ \A i \in 1..(Len(out) - 1) : SubSeq(out, 1, i) \in fs.dirs

\* three bytes in three chunks, one of them empty, into a directory that
\* did not exist
C8_Witness ==
    /\ lastCall.op = "download_results" /\ ~lastCall.preDir
    /\ lastCall.outcome = "return" /\ lastCall.result.success
    /\ lastCall.response.chunks = << <<1, 2>>, <<>>, <<3>> >>
    /\ lastCall.result.file_size = 3
    /\ fs.files[<<"results", "dec", "out.xlsx">>] = <<1, 2, 3>>
    /\ {<<"results">>, <<"results", "dec">>} \subseteq fs.dirs

PrimaryKeyOfSamsung ==
    {<<"file1_column", "txn_ref_number">>, <<"file2_column", "Transaction Reference">>}

(* C9: get_field_mapping_template returns a deep copy: whatever a caller   *)
(* does to a returned document, a later get_field_mapping_template of      *)
(* "samsung" returns the built-in ten entries and a later                  *)
(* get_primary_key_mapping of "samsung" the built-in primary key.  It      *)
(* fails: the copy is shallow, the list and its entries are shared.        *)
C9_DeepCopy ==
    lastLookup.name = Chars_samsung
    => /\ lastLookup.fn = "get_field_mapping_template"
          => lastLookup.outcome = "return" /\ lastLookup.entries = SamsungEntries
       /\ lastLookup.fn = "get_primary_key_mapping"
          => lastLookup.outcome = "return" /\ lastLookup.pk = PrimaryKeyOfSamsung

\* name is "samsung" in some mix of upper and lower case
CaseVariantOfSamsung(name) ==
    /\ Len(name) = Len(Chars_samsung)
    /\ \A i \in 1..Len(name) :
          \/ name[i] = Chars_samsung[i]
          \/ \E k \in 1..Len(LowerCase) :
                LowerCase[k] = Chars_samsung[i] /\ UpperCase[k] = name[i]

(* C10: get_field_mapping_template of any case variant of "samsung"        *)
(* returns the built-in ten-entry document; of any other name it raises    *)
(* the unknown-template error, which lists the available names.  The name  *)
(* is resolved as claimed, but the document is not the ten-entry one once  *)
(* a caller has changed the shared list (C9).                              *)
C10_CaseInsensitiveLookup ==
    lastLookup.fn = "get_field_mapping_template"
    => IF CaseVariantOfSamsung(lastLookup.name)
       THEN lastLookup.outcome = "return" /\ lastLookup.entries = SamsungEntries
       ELSE /\ lastLookup.outcome = "raise"
            /\ lastLookup.error
                 = <<"Unknown template: ", Str(lastLookup.name), ". ",
                     "Available templates: ", "samsung">>

\* the pair of entry i, as get_primary_key_mapping returns it
PairOf(e) == {<<"file1_column", e.file1_column>>, <<"file2_column", e.file2_column>>}

(* C11: get_primary_key_mapping returns the pair of the first entry of the *)
(* document, in its order, whose is_primary_key is true, the empty result  *)
(* when none is flagged, and for "samsung" the pair txn_ref_number /        *)
(* Transaction Reference.  The first two hold of the document as it is     *)
(* when read; the last fails once a caller has changed the shared entries  *)
(* (C9).                                                                   *)
C11_PrimaryKeyFirstFlagged ==
    lastLookup.fn = "get_primary_key_mapping" /\ lastLookup.outcome = "return"
    => LET es == lastLookup.entries
           flagged == {i \in 1..Len(es) : es[i].is_primary_key}
       IN  /\ flagged = {} => lastLookup.pk = {}
           /\ flagged # {}
              => \E i \in flagged :
                    /\ \A j \in flagged : i <= j
                    /\ lastLookup.pk = PairOf(es[i])
           /\ lastLookup.name = Chars_samsung
              => lastLookup.pk = PrimaryKeyOfSamsung

\* a token is stored and its expiry instant has been reached
Expired == Truthy(token) /\ ~token_expiration.none /\ now >= token_expiration.at

\* this step is a call of one of the five authenticated methods
AuthedCallStep == lastCall' # lastCall /\ lastCall'.op \in AuthedOps

\* no step but a call of authenticate changes the stored token or its expiry,
\* and no method but authenticate addresses the login endpoint
OnlyAuthenticateLogsIn ==
    /\ (token' # token \/ token_expiration' # token_expiration)
       => lastCall'.op = "authenticate" /\ now' = now
    /\ lastCall'.request.sent /\ lastCall'.request.url = LoginRequest.url
       => lastCall'.op = "authenticate"

(* C12 as stated: once the stored token has expired, every call of an      *)
(* authenticated method fails with the unauthenticated error and issues no *)
(* request, and only authenticate logs in or changes token and expiry.  It *)
(* fails for upload_files and run_reconciliation given a missing path:     *)
(* they test the paths before the token.                                   *)
C12_NoTransparentReauth ==
    [][ /\ Expired /\ AuthedCallStep
           => /\ lastCall'.outcome = "return"
              /\ lastCall'.result = Unauthenticated
              /\ ~lastCall'.request.sent
        /\ OnlyAuthenticateLogsIn ]_vars

(* C12 amended: once the stored token has expired, every call of an        *)
(* authenticated method fails without issuing a request, with the          *)
(* unauthenticated error or, for upload_files and run_reconciliation given *)
(* a path that does not exist, with the file-not-found error of that path; *)
(* and only authenticate logs in or changes token and expiry.              *)
C12_NoTransparentReauth_Amended ==
    [][ /\ Expired /\ AuthedCallStep
           => LET a == lastCall'.args
                  missing == missing_file(fs, a.file1_path, a.file2_path)
              IN  /\ lastCall'.outcome = "return"
                  /\ ~lastCall'.request.sent
                  /\ IF lastCall'.op \in {"upload_files", "run_reconciliation"}
                        /\ missing # <<>>
                     THEN lastCall'.result = FileNotFound(missing[1])
                     ELSE lastCall'.result = Unauthenticated
        /\ OnlyAuthenticateLogsIn ]_vars

\* the token of a successful login has expired and a status check is refused,
\* the token still stored
C12_Witness ==
    /\ lastAuth.ok /\ Expired /\ token = lastAuth.token
    /\ lastCall.op = "check_status" /\ ~lastCall.preValid
    /\ lastCall.result = Unauthenticated
    /\ ~lastCall.request.sent

\* str(e) of the network fault that struck the call
FaultText(call) ==
    IF call.response.fault THEN call.response.body.text ELSE "Connection broken"

(* C13: a network fault in any client method, also one that strikes while  *)
(* download_results reads the body, ends the call with a returned failure  *)
(* whose error is the network error carrying the fault's text; the call    *)
(* never raises.                                                           *)
C13_NetworkFaultIsResult ==
    lastCall.response.fault \/ lastCall.fault = "stream"
    => /\ ReturnedFailure(lastCall)
       /\ lastCall.result.error[1] = "Network error during "
       /\ \E i \in DOMAIN lastCall.result.error :
             lastCall.result.error[i] = FaultText(lastCall)

\* the connection broke while download_results read the second chunk
C13_Witness ==
    /\ lastCall.op = "download_results" /\ lastCall.fault = "stream"
    /\ lastCall.request.sent /\ lastCall.response.status = 200
    /\ lastCall.result
         = [success |-> FALSE,
            error |-> <<"Network error during ", "download", ": ", "Connection broken">>]

(* C14: no call of a client method issues more than one HTTP request, and  *)
(* no tool invocation calls more than one client method or causes more     *)
(* than one request, whether the request meets a network fault, a refusal  *)
(* or a success.                                                           *)
C14_AtMostOneRequest ==
    /\ lastCall.requests <= 1
    /\ lastCall.requests = 1 <=> lastCall.request.sent
    /\ lastTool.calls <= 1
    /\ lastTool.requests <= 1

\* the upload tool met a network fault: one request, and the failure returned
C14_Witness ==
    /\ lastTool.tool = "upload_files" /\ lastCall.op = "upload_files"
    /\ lastCall.response.fault
    /\ lastTool.calls = 1 /\ lastTool.requests = 1
    /\ lastTool.result = NetworkError("upload", "Connection refused")

(* C16: the set_field_mapping tool without the template and without custom *)
(* mappings returns a failure, calls no client method and issues no        *)
(* request, whatever the token; with the template it sends the samsung     *)
(* template, whatever custom mappings are given; without the template it   *)
(* sends the custom mappings; and when it calls the client, what the tool  *)
(* returns or raises is what the client returned or raised.                *)
C16_ToolSetFieldMapping ==
    lastTool.tool = "set_field_mapping"
    => IF ~lastTool.use_samsung_template /\ ~lastTool.custom_mappings.given
       THEN /\ lastTool.calls = 0 /\ lastTool.requests = 0
            /\ lastTool.outcome = "return"
            /\ lastTool.result.success = FALSE
            /\ DOMAIN lastTool.result = {"success", "error"}
            /\ lastTool.result.error # Unauthenticated.error
       ELSE /\ lastTool.calls = 1
            /\ lastCall.op = "set_field_mapping"
            /\ lastCall.request.sent
               => lastCall.request.json
                    = IF lastTool.use_samsung_template THEN SamsungEntries
                      ELSE lastTool.custom_mappings.entries
            /\ lastTool.outcome = lastCall.outcome
            /\ lastTool.exc = lastCall.exc
            /\ lastTool.result = lastCall.result

\* the template asked for and custom mappings given: the template is sent
C16_Witness ==
    /\ lastTool.tool = "set_field_mapping"
    /\ lastTool.use_samsung_template
    /\ lastTool.custom_mappings = Custom(CustomEntries)
    /\ lastCall.request.sent /\ lastCall.request.json = SamsungEntries
    /\ lastTool.result = lastCall.result /\ lastTool.result.success

(* C15: in download_results a failure to create the output directory, to   *)
(* open the output file or to write to it ends the call with a returned    *)
(* failure whose error is the file-I/O error, which differs from every     *)
(* network error; a network fault, before the answer or while its body is  *)
(* read, is never reported as a file-I/O error.                            *)
C15_FileFaultIsFileIOError ==
    lastCall.op = "download_results"
    => /\ lastCall.fault \in {"mkdir", "open", "write"}
          => /\ ReturnedFailure(lastCall)
             /\ lastCall.result.error[1] = "File I/O error: "
             /\ lastCall.result.error[1] # "Network error during "
             /\ "detail" \notin DOMAIN lastCall.result
       /\ lastCall.response.fault \/ lastCall.fault = "stream"
          => /\ ReturnedFailure(lastCall)
             /\ lastCall.result.error[1] # "File I/O error: "

\* the disk filled up while a chunk of an accepted download was written
C15_Witness ==
    /\ lastCall.op = "download_results" /\ lastCall.fault = "write"
    /\ lastCall.request.sent /\ lastCall.response.status = 200
    /\ lastCall.result = FileIOError("No space left on device")

\* the output directory could not be created: no request was issued
C15_WitnessMkdir ==
    /\ lastCall.op = "download_results" /\ lastCall.fault = "mkdir"
    /\ ~lastCall.request.sent

\* the statuses an operation takes for success
OkStatuses(op) ==
    CASE op = "authenticate" -> {200}
      [] op = "upload_files" -> UploadOk
      [] op = "set_field_mapping" -> MappingOk
      [] op = "run_reconciliation" -> ReconOk
      [] op = "check_status" -> StatusOk
      [] op = "download_results" -> DownloadOk
      [] OTHER -> {}

\* the call received an answer and its status is not one of success
RemotelyRejected(call) ==
    /\ call.request.sent /\ ~call.response.fault
    /\ call.response.status \notin OkStatuses(call.op)

(* C20: every result a client operation returns has a boolean success; a   *)
(* result with success false has an error that is a string; a result with  *)
(* success true has no error; and a result has a detail only when the      *)
(* remote end answered with a status that is not one of success, never     *)
(* after a failed precondition or a network fault.                         *)
C20_ResultShape ==
    lastCall.op # "none" /\ lastCall.outcome = "return"
    => LET r == lastCall.result
       IN  /\ "success" \in DOMAIN r /\ r.success \in BOOLEAN
           /\ ~r.success
              => /\ "error" \in DOMAIN r
                 /\ r.error # <<>>
                 /\ \A i \in DOMAIN r.error : r.error[i] \in STRING
           /\ r.success => "error" \notin DOMAIN r /\ "detail" \notin DOMAIN r
           /\ "detail" \in DOMAIN r
              => /\ ~r.success /\ RemotelyRejected(lastCall)
                 /\ r.detail = ErrorDetail(lastCall.response.body)
           /\ ~r.success /\ RemotelyRejected(lastCall) => "detail" \in DOMAIN r

\* a status check the remote end refused: the failure carries its payload
C20_Witness ==
    /\ lastCall.op = "check_status" /\ lastCall.outcome = "return"
    /\ RemotelyRejected(lastCall) /\ lastCall.response.body.kind = "object"
    /\ ~lastCall.result.success /\ "detail" \in DOMAIN lastCall.result

\* what an authenticated method needs of the local machine before it sends:
\* its input files exist and open, its output directory can be created
LocalPreconditionsMet(call) ==
    /\ call.op \in {"upload_files", "run_reconciliation"}
       => /\ path_exists(fs, call.args.file1_path)
          /\ path_exists(fs, call.args.file2_path)
    /\ call.fault \notin {"open", "mkdir"}

\* a step the API refused as out of order comes back as the failure result
\* with the API's payload as its detail
RefusalPassedThrough ==
    lastCall.op \in AuthedOps /\ lastCall.request.sent
    /\ server.saw # "none" /\ ~ServerAccepts(server.saw, lastCall.op)
    => /\ ReturnedFailure(lastCall)
       /\ "detail" \in DOMAIN lastCall.result
       /\ lastCall.result.detail.parsed
       /\ lastCall.result.detail.obj = OutOfOrderPayload(server.saw, lastCall.op)

(* C17: the client holds no workflow state: with a valid token each of the *)
(* five authenticated methods issues its request whatever was or was not   *)
(* called before it, and the API's refusal of a step out of order is       *)
(* returned as the failure result with the API's payload in detail.  As    *)
(* stated it fails: upload_files and run_reconciliation with a valid token *)
(* send nothing when a file is missing.                                    *)
C17_NoWorkflowState ==
    /\ lastCall.op \in AuthedOps /\ lastCall.preValid => lastCall.request.sent
    /\ RefusalPassedThrough

(* C17, amended: with a valid token and its local preconditions met (the   *)
(* input files exist and open, the output directory can be created) each   *)
(* of the five methods issues its request whatever the stage of the        *)
(* workflow; without a valid token it issues none; the API's refusal is    *)
(* returned as the failure result with the API's payload in detail.        *)
C17_NoWorkflowState_Amended ==
    /\ lastCall.op \in AuthedOps
       => (lastCall.request.sent
           <=> lastCall.preValid /\ LocalPreconditionsMet(lastCall))
    /\ lastCall.op \in AuthedOps /\ lastCall.request.sent /\ ~lastCall.response.fault
       => server.saw # "none"
    /\ RefusalPassedThrough

\* download_results on a workflow in which nothing was uploaded: the request
\* went out and the refusal came back
C17_Witness ==
    /\ lastCall.op = "download_results" /\ lastCall.preValid
    /\ lastCall.request.sent /\ server.saw = "empty"
    /\ lastCall.result.detail.obj = OutOfOrderPayload("empty", "download_results")

(* C18: the workflow run end to end through the tools against an API that  *)
(* accepts every step, with a token that stays valid: every step returns   *)
(* success, the polling ends when a status check reports "completed", and  *)
(* the download to a fresh path returns as file_size the number of bytes   *)
(* written to the path.  When the API's run reaches a terminal status, the *)
(* caller's polling observes it.                                           *)
C18_EachStepSucceeds ==
    /\ pc # "authenticate" => TokenValid
    /\ lastTool.tool # "none"
       => /\ lastTool.outcome = "return" /\ lastTool.result.success
          /\ lastTool.requests = 1
    /\ pc = "download_results"
       => /\ lastTool.tool = "check_reconciliation_status"
          /\ lastTool.result.status = JStr("completed")
    /\ pc = "done"
       => /\ lastTool.tool = "download_results"
          /\ lastCall.preSize = -1
          /\ fs.files[lastCall.args.output_path] = Flatten(ResultBytes)
          /\ lastTool.result.file_size = SumLen(ResultBytes)
          /\ lastTool.result.file_size = Len(fs.files[lastCall.args.output_path])

C18_EndToEnd ==
    /\ []C18_EachStepSucceeds
    /\ (server.stage \in TerminalStatuses)
          ~> (pc \in {"download_results", "done", "failed"})
    /\ (server.stage = "completed") ~> (pc = "done")

\* the run completed, the caller saw it and downloaded the three bytes
C18_Witness ==
    /\ pc = "done" /\ server.stage = "completed"
    /\ lastTool.tool = "download_results" /\ lastTool.result.success
    /\ lastTool.result.file_size = 3
    /\ lastCall.args.output_path = <<"results", "dec", "fresh.xlsx">>

\* the calls of authenticate that have assigned self.token
Writers == {th \in Threads : threads[th].wroteAt > 0}

\* the call that assigned self.token last
LastWriter == CHOOSE th \in Writers : \A o \in Writers : threads[o].wroteAt <= threads[th].wroteAt

(* C19: two calls of authenticate running at once on one client are not    *)
(* serialized: whenever calls have assigned the token, the stored token is *)
(* the one of the call that assigned last, whatever the order in which the *)
(* calls sent their requests or assign the expiry; no call waits for the   *)
(* other.                                                                  *)
C19_LastWriterWins ==
    /\ Writers = {} => token = JNull
    /\ Writers # {} => token = TokenOf(LastWriter)
    /\ \A th \in Threads :
          threads[th].pc \in {"idle", "posted", "token_stored"}
          => \/ ENABLED AuthPost(th)
             \/ ENABLED AuthStoreToken(th)
             \/ ENABLED AuthStoreExpiry(th)

\* both calls have returned; the first call's token is the one stored, while
\* the expiry stored is the one the second call computed
C19_Witness ==
    /\ \A th \in Threads : threads[th].pc = "returned"
    /\ threads[1].wroteAt = 2 /\ threads[2].expAt = 2
    /\ token = TokenOf(1)

\* both calls have returned and the second call's token is the one stored
C19_WitnessOther ==
    /\ \A th \in Threads : threads[th].pc = "returned"
    /\ threads[2].wroteAt = 2 /\ token = TokenOf(2)

\* the statuses the claim names for each operation
ClaimedOk(op) ==
    IF op \in {"upload_files", "set_field_mapping", "run_reconciliation"}
    THEN {200, 201} ELSE {200}

\* a call of a client method that received an answer
Answered(call) ==
    call.op # "none" /\ call.request.sent /\ ~call.response.fault

ReturnedSuccess(call) == call.outcome = "return" /\ call.result.success

\* the failure of the else branch: the status in the error, the body as detail
IsRemoteRejection(call) ==
    /\ ReturnedFailure(call)
    /\ Len(call.result.error) = 3
    /\ call.result.error[2] = " failed with status "
    /\ call.result.error[3] = ToString(call.response.status)
    /\ "detail" \in DOMAIN call.result
    /\ call.result.detail = ErrorDetail(call.response.body)

\* a status outside the operation's set is the remote rejection
OtherStatusRejected ==
    Answered(lastCall) /\ lastCall.response.status \notin ClaimedOk(lastCall.op)
    => IsRemoteRejection(lastCall)

\* an authenticate answered with a status other than 200 leaves the stored
\* token and expiry as they were
RefusedLoginKeepsToken ==
    /\ lastCall'.op = "authenticate" /\ Answered(lastCall')
    /\ lastCall'.response.status # 200
    => UNCHANGED <<token, token_expiration>>

FileOps == {"upload_files", "run_reconciliation", "download_results"}

(* C22: when upload_files, run_reconciliation or download_results has      *)
(* returned, with success or with any failure, none of the local files the *)
(* call opened is still open.                                              *)
C22_NoHandleLeftOpen ==
    lastCall.op \in FileOps /\ lastCall.outcome = "return"
    => lastCall.openAfter = {}

\* an upload that opened both files and met a network fault inside the block
C22_Witness ==
    /\ lastCall.op = "upload_files" /\ lastCall.outcome = "return"
    /\ lastCall.response.fault /\ ~lastCall.result.success
    /\ lastCall.opened = {<<"a.xlsx">>, <<"b.xlsx">>}
    /\ lastCall.openAfter = {}

\* a download whose stream broke after the output file was opened
C22_WitnessDownload ==
    /\ lastCall.op = "download_results" /\ lastCall.fault = "stream"
    /\ lastCall.opened # {} /\ lastCall.openAfter = {}

\* the last call is an authenticate that was refused or met a network fault
FailedLogin(call) ==
    /\ call.op = "authenticate" /\ call.request.sent
    /\ call.response.fault \/ call.response.status # 200

(* C23: an authenticate that fails, by a status other than 200 or by a     *)
(* network fault, returns its failure and leaves the stored token and      *)
(* expiry exactly as they were: a token that was valid stays valid and is  *)
(* the one later requests carry, and a client without a token still has    *)
(* none.                                                                   *)
C23_FailedLoginKeepsToken ==
    /\ [][FailedLogin(lastCall')
            => /\ UNCHANGED <<token, token_expiration>>
               /\ ReturnedFailure(lastCall')]_vars
    /\ [](lastCall.op \in AuthedOps /\ lastCall.request.sent
           => lastCall.request.auth = BearerHeader(token))

\* a login refused with 401 after a successful one: the earlier token is
\* still the stored one and still valid
C23_Witness ==
    /\ FailedLogin(lastCall) /\ lastCall.response.status = 401
    /\ prevAuth.ok /\ token = prevAuth.token /\ token = JStr("T1")
    /\ TokenValid

\* the last call is an authenticate whose 200 answer carried the object the
\* stored token was taken from
TokenFromLastLogin ==
    /\ lastCall.op = "authenticate" /\ Answered(lastCall)
    /\ lastCall.response.status = 200 /\ lastCall.response.body.kind = "object"
    /\ token = DictGet(lastCall.response.body.obj, "access_token")

\* the stored expiry is the one computed from the answer of the last call
ExpiryFromLastLogin ==
    LET expires_in == DictGetDefault(lastCall.response.body.obj, "expires_in",
                                     JInt(DefaultExpiresIn))
    IN  /\ expires_in.ty = "int"
        /\ token_expiration = Expiration(lastAuth.at + expires_in.n - SafetyMargin)

(* C24: the stored token and the stored expiry come from the same login    *)
(* response: after an authenticate whose answer the stored token was taken *)
(* from, the stored expiry is the one computed from that answer.  It       *)
(* fails: a 200 answer whose expires_in is null has its token stored at    *)
(* line 118 and raises at line 121, leaving the earlier login's expiry.    *)
C24_TokenAndExpiryFromOneLogin ==
    TokenFromLastLogin => ExpiryFromLastLogin

(* C25: upload_files and run_reconciliation check that file1 exists, then  *)
(* that file2 exists, then the token: with both paths missing the error    *)
(* names the first path only, and with a path missing on a client without  *)
(* a valid token the result is the file-not-found error, not the           *)
(* unauthenticated one; the unauthenticated error comes only when both     *)
(* files exist.                                                            *)
C25_PreconditionOrder ==
    lastCall.op \in {"upload_files", "run_reconciliation"}
    => LET file1 == lastCall.args.file1_path
           file2 == lastCall.args.file2_path
           r == lastCall.result
       IN  /\ ~path_exists(fs, file1)
              => r = FileNotFound(file1) /\ ~lastCall.request.sent
           /\ path_exists(fs, file1) /\ ~path_exists(fs, file2)
              => r = FileNotFound(file2) /\ ~lastCall.request.sent
           /\ path_exists(fs, file1) /\ path_exists(fs, file2) /\ ~lastCall.preValid
              => r = Unauthenticated /\ ~lastCall.request.sent
           /\ r = Unauthenticated
              => path_exists(fs, file1) /\ path_exists(fs, file2)

\* both paths missing on a client without a valid token: the first is named
C25_Witness ==
    /\ lastCall.op = "run_reconciliation" /\ ~lastCall.preValid
    /\ lastCall.args.file1_path = <<"gone.xlsx">>
    /\ lastCall.args.file2_path = <<"lost.xlsx">>
    /\ lastCall.result = FileNotFound(<<"gone.xlsx">>)

\* what the filesystem holds at a path: the file's bytes, or that there is none
FileAt(f, p) == IF p \in DOMAIN f.files THEN <<"file", f.files[p]>> ELSE <<"none">>

(* C26: a download_results call that returns a failure leaves the local    *)
(* filesystem unchanged at output_path: without a valid token no directory *)
(* is created, and on a status other than 200 or a fault during streaming  *)
(* no file is created, truncated or left partly written at output_path.    *)
(* It fails: the file is opened for writing before the body is read, so a  *)
(* stream that breaks leaves it truncated, holding the chunks read so far. *)
C26_FailedDownloadLeavesNoFile ==
    [][lastCall'.op = "download_results" /\ ReturnedFailure(lastCall')
        => LET p == lastCall'.args.output_path
           IN  /\ FileAt(fs', p) = FileAt(fs, p)
               /\ ~lastCall'.preValid => fs' = fs]_vars

\* the empty default the tool is said to return next to "error"
ClaimedEmailDefault(tool) ==
    CASE tool = "search_emails" -> ("emails" :> [ty |-> "list", s |-> "", n |-> 0])
      [] tool = "get_email" -> ("email" :> JNull)
      [] tool = "send_email" -> ("success" :> [ty |-> "bool", s |-> "", n |-> 0])
      [] tool = "reply_to_email" -> ("success" :> [ty |-> "bool", s |-> "", n |-> 0])
      [] tool = "forward_email" -> ("success" :> [ty |-> "bool", s |-> "", n |-> 0])
      [] tool = "list_folders" -> ("folders" :> [ty |-> "list", s |-> "", n |-> 0])
      [] tool = "download_attachment" -> ("attachment" :> JNull)

EmailCalled == lastEmail.op \in EmailTools

\* the bridge answered with a 2xx status and a body that is JSON
EmailAnsweredJson(call) ==
    /\ ~call.response.fault
    /\ call.response.status \in 200..299
    /\ call.response.body.kind \in {"object", "array"}

\* no answer at all, or an answer with a 4xx or 5xx status
EmailFailed(call) ==
    call.response.fault \/ call.response.status \in 400..599

\* {"error": <string>} together with the tool's default, and nothing else
IsEmailError(call) ==
    LET d == ClaimedEmailDefault(call.op)
    IN  /\ call.outcome = "return"
        /\ DOMAIN call.result = {"error"} \cup DOMAIN d
        /\ call.result["error"].ty = "str"
        /\ call.result["error"].s # ""
        /\ \A k \in DOMAIN d : call.result[k] = d[k]

(* C27: each email tool issues one request to the email bridge and returns *)
(* the response's JSON body when the status is successful; on a network    *)
(* fault or an error HTTP status it does not raise but returns a dict with *)
(* an "error" string and the tool's empty default (emails: [], email:      *)
(* None, success: false, folders: [], attachment: None).                   *)
C27_EmailToolsNeverRaise ==
    EmailCalled =>
        /\ lastEmail.requests = 1
        /\ lastEmail.request.sent
        /\ EmailAnsweredJson(lastEmail) =>
               /\ lastEmail.outcome = "return"
               /\ lastEmail.result =
                      ("json" :> [kind |-> lastEmail.response.body.kind,
                                  obj |-> lastEmail.response.body.obj])
        /\ EmailFailed(lastEmail) => IsEmailError(lastEmail)

\* get_email of a message the bridge does not have: 404, and the default
C27_Witness ==
    /\ lastEmail.op = "get_email"
    /\ lastEmail.response.status = 404
    /\ ~lastEmail.response.fault
    /\ IsEmailError(lastEmail)
    /\ lastEmail.result["email"] = JNull

\* send_email with the bridge down: an error and success false, no exception
C27_WitnessFault ==
    /\ lastEmail.op = "send_email"
    /\ lastEmail.response.fault
    /\ IsEmailError(lastEmail)

\* list_folders answered 200 with a JSON array: the array is what returns
C27_WitnessJson ==
    /\ lastEmail.op = "list_folders"
    /\ EmailAnsweredJson(lastEmail)
    /\ lastEmail.response.body.kind = "array"
    /\ lastEmail.outcome = "return"
    /\ "error" \notin DOMAIN lastEmail.result

====
